---- MODULE Spec2Model ----
(***************************************************************************)
(* State-machine model of CoralNet_Tools.                                  *)
(*                                                                         *)
(*   SpecTrain     the epoch loop and best-checkpoint reload of the        *)
(*                 segmentation trainer (Toolbox/Tools/Segmentation.py)    *)
(*   SpecSplit     the train/validation/test split of both trainers        *)
(*                 (Toolbox/Tools/Classifier.py, Segmentation.py)          *)
(*   SpecDownload  download_data() and its stages                          *)
(*                 (CoralNet_API/CoralNet_Download.py)                     *)
(*   SpecDownloadImage  sequences of download_image() calls                *)
(*   Spec          the image window and its full-resolution load workers   *)
(*                 (toolbox/QtImage.py)                                    *)
(*   SpecBrowse    the image window's table: import, filters, search,      *)
(*                 deletion and next/previous (toolbox/QtImage.py)         *)
(*   SpecExport    export_annotations()                                    *)
(*                 (coralnet_toolbox/IO/QtExportCoralNetAnnotations.py)    *)
(*   SpecSelect    the selection tool (toolbox/Tools/QtSelectTool.py)      *)
(*   SpecMain      main() of the downloader                                *)
(*                 (CoralNet_API/CoralNet_Download.py)                     *)
(*   SpecSpotlight the filters and table of the Spotlight window           *)
(*                 (toolbox/QtSpotlightWindow.py)                          *)
(*   SpecDeploy    load_model, predict and deactivate_model of the         *)
(*                 AutoDistill dialog                                      *)
(*                 (toolbox/AutoDistill/QtDeployModel.py)                  *)
(***************************************************************************)
EXTENDS Integers, Sequences, FiniteSets, Bags, TLC

(***************************************************************************)
(* Bounds of the model (not program constants).                            *)
(***************************************************************************)
MaxEpochs == 10
MaxLoss == 2
NumSplitImages == 3
NumLabels == 3
MaxRows == 4
MaxPages == 3
MaxCalls == 3
NumPaths == 2
MaxSelections == 9
MaxLoads == 1
MaxErrors == 1
TickMs == 25
MaxAnnotations == 3
MaxExports == 2
MaxCoord == 4
MaxEvents == 3
MaxBrowseEvents == 4
MaxSources == 2
MaxSpotlightAnnotations == 2
MaxDialogEvents == 4
MaxPredictImages == 2

(***************************************************************************)
(* Segmentation trainer: state of seg() from the training loop onwards.    *)
(***************************************************************************)
VARIABLES
    num_epochs,     \* args.num_epochs
    e_idx,          \* loop variable of the last iteration that ran to its end
                    \* (0: none did)
    train_loss,     \* loss values of the epoch that ran last
    valid_loss,
    best_score,     \* lowest validation loss seen
    best_epoch,
    since_best,
    lr_halvings,    \* optimizer lr = args.learning_rate * 0.5^lr_halvings
    weights,        \* epochs e whose file model-<e>-<tl>-<vl>.pth is in weights_dir
    first_seen,     \* history: first_seen[l] is the first epoch that reported the
                    \* validation loss l (0: no epoch did so far)
    seg_pc,         \* "loop", "load", "evaluate", "done", "crashed", "exited"
    loop_exit,      \* how the loop ended: "none", "exhausted", "break", "interrupt"
    best_weights,   \* epoch of the file loaded after the loop (0: none)
    best_model_copy \* epoch of the file copied to Best_Model_and_Weights.pth (0: none)

trainVars == <<num_epochs, e_idx, train_loss, valid_loss, best_score, best_epoch,
               since_best, lr_halvings, weights, first_seen, seg_pc, loop_exit,
               best_weights, best_model_copy>>

(***************************************************************************)
(* Dataset split of train_classifier() and seg().  A table is the set of   *)
(* its rows; a row is [Name, Label] (rows of one image with one label are  *)
(* not told apart, the segmentation table has one row per image).          *)
(***************************************************************************)
VARIABLES
    trainer,           \* "classifier" or "segmentation"
    patches_df,        \* the input table (patches_df / dataframe)
    training_images,   \* image names of the three splits
    validation_images,
    testing_images,
    train_df,          \* the three tables
    valid_df,
    test_df,
    sample,            \* the rows drawn by the class backfill
    split_pc           \* "split1", "split2", "frames", "backfill", "done", "error"

splitVars == <<trainer, patches_df, training_images, validation_images, testing_images,
               train_df, valid_df, test_df, sample, split_pc>>

(***************************************************************************)
(* The downloader: download_data() for one source, and download_image().   *)
(* The direct URL that an image page p resolves to is written p as well.   *)
(***************************************************************************)
VARIABLES
    dd_pc,          \* position in download_data: the stage about to run, a step of
                    \* the images stage, "returned" or "process_exit"
    stages_run,     \* the stages started so far, in order
    exit_stage,     \* the stage that called sys.exit(1) ("none": no stage did)
    meta,           \* the four results: "unset", "None" or a value
    labelset,
    dd_images,      \* the result images of download_data
    annotations,
    image_table,    \* rows [image_page, image_name] collected by get_images
    futures,        \* rows whose get_image_url task has not completed yet
    image_urls,     \* the list get_image_urls builds
    url_failed,     \* rows whose URL could not be resolved
    handed,         \* whether download_images was called, and the table given to it
    dl_pending,     \* rows of handed whose download_image task has not completed
    expired_images, \* image names whose download failed
    files,          \* destination paths that exist on disk
    dl_calls        \* history: the download_image calls made, in order

dlVars == <<dd_pc, stages_run, exit_stage, meta, labelset, dd_images, annotations,
            image_table, futures, image_urls, url_failed, handed, dl_pending,
            expired_images, files, dl_calls>>

(***************************************************************************)
(* The image window (toolbox/QtImage.py): the main thread runs one handler *)
(* at a time; every LoadFullResolutionImageWorker is a thread of its own   *)
(* whose signals are queued to the main thread.                            *)
(***************************************************************************)
VARIABLES
    image_paths,            \* list of imported image paths
    filtered_image_paths,
    selected_image_path,    \* an image path, or None
    images,                 \* per path: the file its bitmap was loaded from (None: no entry)
    rasterio_images,        \* per path: the file its raster handle is open on (None: no entry)
    image_load_queue,       \* FIFO of image paths
    workers,                \* bag of the worker objects whose thread runs or that
                            \* still have a signal queued; a worker is listed when it
                            \* is in current_workers and its thread is running
    timers,                 \* number of QTimer.singleShot(0, _process_image_queue) pending
    elapsed,                \* ms since last_image_selection_time, capped at THROTTLE_INTERVAL
    override_cursors,       \* depth of the application's override cursor stack
    closed,                 \* closeEvent has returned
    selections,             \* number of selections accepted so far
    loads,                  \* number of workers whose run() has completed outside closeEvent
    errors                  \* number of exceptions raised so far

iwVars == <<image_paths, filtered_image_paths, selected_image_path, images,
            rasterio_images, image_load_queue, workers, timers, elapsed,
            override_cursors, closed, selections, loads, errors>>

(***************************************************************************)
(* The CoralNet exporter (coralnet_toolbox/IO/QtExportCoralNetAnnotations  *)
(* .py): calls of export_annotations().  An annotation is TRUE when its    *)
(* to_coralnet() returns a row and FALSE when it raises; the row of the    *)
(* i-th annotation is written i, a row left by an earlier program 0.       *)
(***************************************************************************)
VARIABLES
    annotations_dict,   \* annotation_window.annotations_dict.values()
    destination,        \* the destination file: [exists, rows]
    ex_cursor,          \* depth of the application's override cursor stack
    progress_bars,      \* number of progress dialogs that are open
    exports,            \* number of export_annotations calls that returned
    last_export         \* history: what the last call did

exVars == <<annotations_dict, destination, ex_cursor, progress_bars, exports, last_export>>

(***************************************************************************)
(* The selection tool (toolbox/Tools/QtSelectTool.py) on a scene of two    *)
(* annotations.  A point is <<x, y>> in scene pixels, None is <<>>.        *)
(***************************************************************************)
VARIABLES
    scene,                \* per annotation id: [kind, top_left, bottom_right]
    selected_annotation,  \* annotation_window.selected_annotation (an id, or 0)
    drag_start_pos,       \* annotation_window.drag_start_pos
    resizing,
    resize_handle,        \* "None" or the name of a corner
    resize_start_pos,
    left_button,          \* the left mouse button is held down
    pressed,              \* history: the annotation whose handle started the
                          \* resize gesture (0: none)
    last_move,            \* history: what the last move event did
    events                \* number of mouse events handled

stVars == <<scene, selected_annotation, drag_start_pos, resizing, resize_handle,
            resize_start_pos, left_button, pressed, last_move, events>>

(***************************************************************************)
(* The image window as a browser: its filters, the deletion of images and  *)
(* the next/previous navigation, on top of the variables above.            *)
(***************************************************************************)
VARIABLES
    has_annotations_checkbox,   \* isChecked() of the three filter checkboxes
    needs_review_checkbox,
    no_annotations_checkbox,
    search_bar,                 \* the search text (NoText: empty)
    search_timer,               \* the 500 ms debounce timer is active
    image_dict,                 \* the keys of image_dict
    store,                      \* per image, what the annotation window holds for it:
                                \* "none", "annotated" or "review"
    show_confirmation_dialog,
    seen,                       \* history: the checkbox states read by the calls of
                                \* filter_images during the last event
    last_event,                 \* history: the last user event and the path it asked
                                \* load_image_by_path for
    browse_events               \* number of user events handled

brVars == <<has_annotations_checkbox, needs_review_checkbox, no_annotations_checkbox,
            search_bar, search_timer, image_dict, store, show_confirmation_dialog,
            seen, last_event, browse_events>>

(***************************************************************************)
(* main() of the downloader (CoralNet_API/CoralNet_Download.py).           *)
(***************************************************************************)
VARIABLES
    main_pc,        \* position in main(): the statement about to run, or "ended"
    source_ids,     \* args.source_ids, a list of ids (<<>>: None, not given)
    headless,       \* args.headless.lower() == 'true'
    options,        \* the arguments added to the Options object
    driver,         \* "none", "open" or "closed"
    credentials,    \* driver.capabilities['credentials'] is set
    success,        \* login() found the sign-out link
    sources_done,   \* the sources for which download_data returned, in order
    main_exit,      \* how main() ended: "running", "done", "exception" or
                    \* "system_exit"
    failed_at       \* history: the statement that ended main() early ("none")

maVars == <<main_pc, source_ids, headless, options, driver, credentials,
            success, sources_done, main_exit, failed_at>>

(***************************************************************************)
(* The Spotlight window (toolbox/QtSpotlightWindow.py).  An image path is  *)
(* <<directory, file name>>; a label is its short code c, its long code    *)
(* is written c + 10.                                                      *)
(***************************************************************************)
VARIABLES
    sw_annotations,       \* annotation_window.annotations_dict.values(), in order:
                          \* records [image_path, label_short_code, type]
    image_dropdown,       \* the three combo boxes: [items, currentIndex]
    label_dropdown,       \* (currentIndex counts from 0; -1: no item)
    annotation_dropdown,
    filtered_images,
    filtered_labels,
    filtered_annotations,
    table_widget,         \* the rows of the table, top to bottom
    sw_op                 \* history: the last event, "none", "show" or the
                          \* name of the dropdown that changed

swVars == <<sw_annotations, image_dropdown, label_dropdown, annotation_dropdown,
            filtered_images, filtered_labels, filtered_annotations, table_widget,
            sw_op>>

(***************************************************************************)
(* The AutoDistill dialog (toolbox/AutoDistill/QtDeployModel.py).          *)
(* Thresholds are written in hundredths.                                   *)
(***************************************************************************)
VARIABLES
    main_uncertainty_thresh, \* main_window.get_uncertainty_thresh()
    ontology_pairs,      \* what the ontology inputs hold: the id of a mapping
    loaded_model,        \* [loaded, ontology, box_threshold, text_threshold]
    model_name,          \* "None" or the name of a model
    ontology,            \* self.ontology: the id of a mapping (0: None)
    ad_cursors,          \* depth of the application's override cursor stack
    ad_progress_bars,    \* number of progress dialogs that are open
    ad_last,             \* history: the last operation, how it ended and the
                         \* uncertainty threshold configured when it ran
    ad_events            \* number of operations run

adVars == <<main_uncertainty_thresh, ontology_pairs, loaded_model, model_name,
            ontology, ad_cursors, ad_progress_bars, ad_last, ad_events>>

vars == <<trainVars, splitVars, dlVars, iwVars, exVars, stVars, brVars, maVars, swVars, adVars>>

\* The variables of the other components, per component.
notTrainVars == <<splitVars, dlVars, iwVars, exVars, stVars, brVars, maVars, swVars, adVars>>
notSplitVars == <<trainVars, dlVars, iwVars, exVars, stVars, brVars, maVars, swVars, adVars>>
notDlVars == <<trainVars, splitVars, iwVars, exVars, stVars, brVars, maVars, swVars, adVars>>
notIwVars == <<trainVars, splitVars, dlVars, exVars, stVars, brVars, maVars, swVars, adVars>>
notExVars == <<trainVars, splitVars, dlVars, iwVars, stVars, brVars, maVars, swVars, adVars>>
notStVars == <<trainVars, splitVars, dlVars, iwVars, exVars, brVars, maVars, swVars, adVars>>
\* The variables of the components other than the image window.
notBrowseVars == <<trainVars, splitVars, dlVars, exVars, stVars, maVars, swVars, adVars>>
notMaVars == <<trainVars, splitVars, dlVars, iwVars, exVars, stVars, brVars, swVars, adVars>>
notSwVars == <<trainVars, splitVars, dlVars, iwVars, exVars, stVars, brVars, maVars, adVars>>
notAdVars == <<trainVars, splitVars, dlVars, iwVars, exVars, stVars, brVars, maVars, swVars>>

\* The loss values an epoch can report.
Losses == 0..MaxLoss

\* float('inf'): larger than every loss.
Inf == MaxLoss + 1

\* The epoch counts the runs are started with.
NumEpochsChoices == {0, 1, MaxEpochs}

\* Characters of the file names, by ASCII code.
Dash == 45
Zero == 48

\* str(n) for a natural number n, as a sequence of ASCII codes.
RECURSIVE Str(_)
Str(n) == IF n < 10 THEN <<Zero + n>> ELSE Str(n \div 10) \o <<Zero + (n % 10)>>

\* The part of the file name of epoch e that decides matching and ordering:
\* "model-" is common to all files and str(e) is followed by "-".
WeightsName(e) == Str(e) \o <<Dash>>

IsPrefix(s, t) == Len(s) <= Len(t) /\ SubSeq(t, 1, Len(s)) = s

\* s < t in the lexicographic order of Python strings.
LexLess(s, t) ==
    \E k \in 0..Len(s) :
        /\ k <= Len(t)
        /\ SubSeq(s, 1, k) = SubSeq(t, 1, k)
        /\ \/ k = Len(s) /\ k < Len(t)
           \/ k < Len(s) /\ k < Len(t) /\ s[k + 1] < t[k + 1]

\* f'model-{str(best_epoch)}' in w, for the file w of epoch e.
MatchesBestEpoch(e, b) == IsPrefix(Str(b), WeightsName(e))

\* [w for w in sorted(glob(...)) if f'model-{best_epoch}' in w]
MatchingWeights(ws, b) == {e \in ws : MatchesBestEpoch(e, b)}

\* ...[0]: the first match in sorted order.
FirstSorted(ms) ==
    CHOOSE e \in ms : \A o \in ms \ {e} : LexLess(WeightsName(e), WeightsName(o))

\* The image window is not open.
ImageWindowIdle ==
    /\ image_paths = <<>>
    /\ filtered_image_paths = <<>>
    /\ selected_image_path = 0
    /\ images = <<>>
    /\ rasterio_images = <<>>
    /\ image_load_queue = <<>>
    /\ workers = EmptyBag
    /\ timers = 0
    /\ elapsed = 0
    /\ override_cursors = 0
    /\ closed = TRUE
    /\ selections = 0
    /\ loads = 0
    /\ errors = 0

\* download_images has not been called.
NotCalled == [called |-> FALSE, rows |-> <<>>]

\* The downloader is not running.
DownloadIdle ==
    /\ dd_pc = "returned"
    /\ stages_run = <<>>
    /\ exit_stage = "none"
    /\ meta = "unset"
    /\ labelset = "unset"
    /\ dd_images = "unset"
    /\ annotations = "unset"
    /\ image_table = <<>>
    /\ futures = {}
    /\ image_urls = <<>>
    /\ url_failed = {}
    /\ handed = NotCalled
    /\ dl_pending = {}
    /\ expired_images = {}
    /\ files = {}
    /\ dl_calls = <<>>

\* export_annotations has not been called.
NoExport ==
    [file_path |-> FALSE, total_annotations |-> 0, raised |-> "none", df |-> <<>>,
     progress |-> 0, dialog |-> "none", cursor_before |-> 0, destination_before |-> [exists |-> FALSE, rows |-> <<>>]]

\* The exporter is not in use.
ExportIdle ==
    /\ annotations_dict = <<>>
    /\ destination = [exists |-> FALSE, rows |-> <<>>]
    /\ ex_cursor = 0
    /\ progress_bars = 0
    /\ exports = 0
    /\ last_export = NoExport

\* The selection tool is not in use.
SelectIdle ==
    /\ scene = <<>>
    /\ selected_annotation = 0
    /\ drag_start_pos = <<>>
    /\ resizing = FALSE
    /\ resize_handle = "None"
    /\ resize_start_pos = <<>>
    /\ left_button = FALSE
    /\ pressed = 0
    /\ last_move = "none"
    /\ events = 0

\* No user event was handled.
NoEvent == [op |-> "none", requested |-> 0, raised |-> FALSE]

\* The filters of the image window after construction, no image annotated.
BrowseIdle ==
    /\ has_annotations_checkbox = FALSE
    /\ needs_review_checkbox = FALSE
    /\ no_annotations_checkbox = FALSE
    /\ search_bar = 0
    /\ search_timer = FALSE
    /\ image_dict = {}
    /\ store = <<>>
    /\ show_confirmation_dialog = TRUE
    /\ seen = <<>>
    /\ last_event = NoEvent
    /\ browse_events = 0

\* main() of the downloader is not running.
MainIdle ==
    /\ main_pc = "ended"
    /\ source_ids = <<>>
    /\ headless = FALSE
    /\ options = {}
    /\ driver = "none"
    /\ credentials = FALSE
    /\ success = FALSE
    /\ sources_done = <<>>
    /\ main_exit = "running"
    /\ failed_at = "none"

\* A combo box that has not been filled.
NoDropdown == [items |-> <<>>, currentIndex |-> -1]

\* The Spotlight window has not been constructed.
SpotlightIdle ==
    /\ sw_annotations = <<>>
    /\ image_dropdown = NoDropdown
    /\ label_dropdown = NoDropdown
    /\ annotation_dropdown = NoDropdown
    /\ filtered_images = {}
    /\ filtered_labels = {}
    /\ filtered_annotations = {}
    /\ table_widget = <<>>
    /\ sw_op = "none"

\* self.loaded_model = None
NoModel == [loaded |-> FALSE, ontology |-> 0, box_threshold |-> 0, text_threshold |-> 0]

NoOperation == [op |-> "none", outcome |-> "none", thresh |-> 0]

\* The AutoDistill dialog has not been constructed.
DeployIdle ==
    /\ main_uncertainty_thresh = 0
    /\ ontology_pairs = 0
    /\ loaded_model = NoModel
    /\ model_name = "None"
    /\ ontology = 0
    /\ ad_cursors = 0
    /\ ad_progress_bars = 0
    /\ ad_last = NoOperation
    /\ ad_events = 0

TrainInit ==
    /\ num_epochs \in NumEpochsChoices
    /\ e_idx = 0
    /\ train_loss = 0
    /\ valid_loss = 0
    /\ best_score = Inf
    /\ best_epoch = 0
    /\ since_best = 0
    /\ lr_halvings = 0
    /\ weights = {}
    /\ first_seen = [l \in Losses |-> 0]
    /\ seg_pc = "loop"
    /\ loop_exit = "none"
    /\ best_weights = 0
    /\ best_model_copy = 0

\* Mutation of Improved: a tie counts as an improvement.
Improved_Tie(vl, bs) == vl <= bs

\* if valid_loss < best_score
Improved(vl, bs) == vl < bs

\* if since_best >= 3 and train_loss <= valid_loss
DecreaseLR(sb, tl, vl) == sb >= 3 /\ tl <= vl

\* Mutation of ExitEarly: the comparison of the learning-rate rule is used.
ExitEarly_Leq(sb, tl, vl) == sb >= 7 /\ tl <= vl

\* if since_best >= 7 and train_loss < valid_loss
ExitEarly(sb, tl, vl) == sb >= 7 /\ tl < vl

\* Mutation of NextSinceBest: the counter is not reset by an improvement.
NextSinceBest_NoReset(sb, vl, bs) == sb + 1

\* since_best after the "Update best" step.
NextSinceBest(sb, vl, bs) == IF Improved(vl, bs) THEN 0 ELSE sb + 1

\* One iteration of the training loop with the losses (tl, vl).
Epoch(tl, vl) ==
    /\ UNCHANGED notTrainVars
    /\ seg_pc = "loop"
    /\ e_idx < num_epochs
    /\ e_idx' = e_idx + 1
    /\ train_loss' = tl
    /\ valid_loss' = vl
    /\ first_seen' = IF first_seen[vl] = 0
                       THEN [first_seen EXCEPT ![vl] = e_idx'] ELSE first_seen
    /\ IF Improved(vl, best_score)
         THEN /\ best_score' = vl
              /\ best_epoch' = e_idx'
              /\ weights' = weights \cup {e_idx'}
         ELSE UNCHANGED <<best_score, best_epoch, weights>>
    /\ since_best' = NextSinceBest(since_best, vl, best_score)
    /\ lr_halvings' = IF DecreaseLR(since_best', tl, vl)
                        THEN lr_halvings + 1 ELSE lr_halvings
    /\ IF ExitEarly(since_best', tl, vl)
         THEN seg_pc' = "load" /\ loop_exit' = "break"
         ELSE UNCHANGED <<seg_pc, loop_exit>>
    /\ UNCHANGED <<num_epochs, best_weights, best_model_copy>>

\* range(1, num_epochs + 1) is exhausted.
LoopEnd ==
    /\ UNCHANGED notTrainVars
    /\ seg_pc = "loop"
    /\ e_idx = num_epochs
    /\ seg_pc' = "load"
    /\ loop_exit' = "exhausted"
    /\ UNCHANGED <<num_epochs, e_idx, train_loss, valid_loss, best_score, best_epoch,
                   since_best, lr_halvings, weights, first_seen, best_weights,
                   best_model_copy>>

\* The points of an iteration at which the interrupt can arrive, told apart by
\* what the "Update best" step has done: nothing yet ("before_update"), or
\* best_score, best_epoch and since_best are assigned and torch.save has not
\* written the file of the epoch ("before_save").
InterruptPoints == {"before_update", "before_save"}

\* except KeyboardInterrupt, raised while an epoch with validation loss vl is
\* being run; the except clause logs and the run goes on after the loop.
\* e_idx is left at the number of iterations that ran to their end.
KeyboardInterrupt(point, vl) ==
    /\ UNCHANGED notTrainVars
    /\ seg_pc = "loop"
    /\ e_idx < num_epochs
    /\ seg_pc' = "load"
    /\ loop_exit' = "interrupt"
    /\ IF point = "before_save"
         THEN /\ Improved(vl, best_score)
              /\ best_score' = vl
              /\ best_epoch' = e_idx + 1
              /\ since_best' = 0
         ELSE /\ vl = valid_loss
              /\ UNCHANGED <<best_score, best_epoch, since_best>>
    /\ UNCHANGED <<num_epochs, e_idx, train_loss, valid_loss, lr_halvings, weights,
                   first_seen, best_weights, best_model_copy>>

KeyboardInterruptStep ==
    \E point \in InterruptPoints, vl \in Losses : KeyboardInterrupt(point, vl)

\* except Exception: the error is logged and the process exits.
TrainingError ==
    /\ UNCHANGED notTrainVars
    /\ seg_pc = "loop"
    /\ e_idx < num_epochs
    /\ seg_pc' = "exited"
    /\ UNCHANGED <<num_epochs, e_idx, train_loss, valid_loss, best_score, best_epoch,
                   since_best, lr_halvings, weights, first_seen, loop_exit,
                   best_weights, best_model_copy>>

\* Load best model: an empty match list makes [0] raise IndexError.
LoadBest ==
    /\ UNCHANGED notTrainVars
    /\ seg_pc = "load"
    /\ LET ms == MatchingWeights(weights, best_epoch) IN
         IF ms = {}
           THEN seg_pc' = "crashed" /\ UNCHANGED best_weights
           ELSE seg_pc' = "evaluate" /\ best_weights' = FirstSorted(ms)
    /\ UNCHANGED <<num_epochs, e_idx, train_loss, valid_loss, best_score, best_epoch,
                   since_best, lr_halvings, weights, first_seen, loop_exit,
                   best_model_copy>>

\* Evaluation and visualisation swallow their exceptions; then the best
\* weights are copied to Best_Model_and_Weights.pth.
CopyBest ==
    /\ UNCHANGED notTrainVars
    /\ seg_pc = "evaluate"
    /\ best_model_copy' = best_weights
    /\ seg_pc' = "done"
    /\ UNCHANGED <<num_epochs, e_idx, train_loss, valid_loss, best_score, best_epoch,
                   since_best, lr_halvings, weights, first_seen, loop_exit,
                   best_weights>>

TrainNext ==
    \/ \E tl \in Losses, vl \in Losses : Epoch(tl, vl)
    \/ LoopEnd
    \/ KeyboardInterruptStep
    \/ TrainingError
    \/ LoadBest
    \/ CopyBest

(***************************************************************************)
(* The dataset split.                                                      *)
(***************************************************************************)
SplitIdle ==
    /\ trainer = "segmentation"
    /\ patches_df = {}
    /\ training_images = {}
    /\ validation_images = {}
    /\ testing_images = {}
    /\ train_df = {}
    /\ valid_df = {}
    /\ test_df = {}
    /\ sample = {}
    /\ split_pc = "done"

InitTrainSpec == TrainInit /\ SplitIdle /\ DownloadIdle /\ ImageWindowIdle /\ ExportIdle /\ SelectIdle /\ BrowseIdle /\ MainIdle /\ SpotlightIdle /\ DeployIdle

SpecTrain == InitTrainSpec /\ [][TrainNext]_vars

\* The image names and class labels of the input tables.
SplitImages == 1..NumSplitImages
LabelSet == 1..NumLabels

\* The rows an input table can have.
AllRows == {[Name |-> i, Label |-> l] : i \in SplitImages, l \in LabelSet}

\* The sets of at most k rows drawn from rows.
RECURSIVE RowSets(_, _)
RowSets(rows, k) ==
    IF k = 0 \/ rows = {}
      THEN {{}}
      ELSE LET r == CHOOSE x \in rows : TRUE
               rest == rows \ {r}
           IN  RowSets(rest, k) \cup {t \cup {r} : t \in RowSets(rest, k - 1)}

\* The input tables: at most MaxRows rows.
InputTables == RowSets(AllRows, MaxRows)

\* df['Name'].unique() and df['Label'].unique()
Names(df) == {r.Name : r \in df}
LabelsOf(df) == {r.Label : r \in df}

\* scikit-learn's size rule for a float test_size given in percent:
\* n_test = ceil(test_size * n), n_train = n - n_test.
NTest(n, percent) == (n * percent + 99) \div 100

\* train_test_split(names, test_size): the (train, test) pairs it can return
\* for some shuffle; none when a side would be empty (ValueError).
TrainTestSplit(names, percent) ==
    LET n == Cardinality(names)
        k == NTest(n, percent)
    IN  IF n - k <= 0 \/ k <= 0
          THEN {}
          ELSE {<<names \ t, t>> : t \in {u \in SUBSET names : Cardinality(u) = k}}

\* Mutation of Isin: the frame is not restricted to the split's images.
Isin_Unfiltered(df, names) == df

\* df[df['Name'].isin(names)]
Isin(df, names) == {r \in df : r.Name \in names}

\* Mutation of NeedsBackfill: any class of the training split missing from
\* the validation split triggers the backfill.
NeedsBackfill_Sets(tr, va) == LabelsOf(tr) \ LabelsOf(va) # {}

\* if len(set(train_df['Label'].unique())) - len(set(valid_df['Label'].unique()))
NeedsBackfill(tr, va) == Cardinality(LabelsOf(tr)) - Cardinality(LabelsOf(va)) # 0

\* The samples the backfill can draw: one row of patches_df per label.
Samples(df) ==
    {s \in SUBSET df : \A l \in LabelsOf(df) : Cardinality({r \in s : r.Label = l}) = 1}

SplitInit ==
    /\ trainer \in {"classifier", "segmentation"}
    /\ patches_df \in InputTables
    /\ Names(patches_df) = 1..Cardinality(Names(patches_df))
    /\ training_images = {}
    /\ validation_images = {}
    /\ testing_images = {}
    /\ train_df = {}
    /\ valid_df = {}
    /\ test_df = {}
    /\ sample = {}
    /\ split_pc = "split1"

\* train_test_split(image_names, test_size=0.35, random_state=42)
FirstSplit ==
    /\ split_pc = "split1"
    /\ LET res == TrainTestSplit(Names(patches_df), 35) IN
         IF res = {}
           THEN /\ split_pc' = "error"
                /\ UNCHANGED <<training_images, testing_images>>
           ELSE /\ \E p \in res : training_images' = p[1] /\ testing_images' = p[2]
                /\ split_pc' = "split2"
    /\ UNCHANGED <<trainer, patches_df, validation_images, train_df, valid_df, test_df, sample>>
    /\ UNCHANGED notSplitVars

\* train_test_split(testing_images, test_size=0.5, random_state=42)
SecondSplit ==
    /\ split_pc = "split2"
    /\ LET res == TrainTestSplit(testing_images, 50) IN
         IF res = {}
           THEN /\ split_pc' = "error"
                /\ UNCHANGED <<validation_images, testing_images>>
           ELSE /\ \E p \in res : validation_images' = p[1] /\ testing_images' = p[2]
                /\ split_pc' = "frames"
    /\ UNCHANGED <<trainer, patches_df, training_images, train_df, valid_df, test_df, sample>>
    /\ UNCHANGED notSplitVars

\* Create training, validation, and test dataframes.
CreateFrames ==
    /\ split_pc = "frames"
    /\ train_df' = Isin(patches_df, training_images)
    /\ valid_df' = Isin(patches_df, validation_images)
    /\ test_df' = Isin(patches_df, testing_images)
    /\ split_pc' = IF trainer = "classifier" THEN "backfill" ELSE "done"
    /\ UNCHANGED <<trainer, patches_df, training_images, validation_images,
                   testing_images, sample>>
    /\ UNCHANGED notSplitVars

\* The class backfill of the classifier, with the sample s.
Backfill(s) ==
    /\ split_pc = "backfill"
    /\ IF NeedsBackfill(train_df, valid_df)
         THEN /\ sample' = s
              /\ train_df' = s \cup train_df
              /\ valid_df' = s \cup valid_df
              /\ test_df' = s \cup test_df
         ELSE UNCHANGED <<sample, train_df, valid_df, test_df>>
    /\ split_pc' = "done"
    /\ UNCHANGED <<trainer, patches_df, training_images, validation_images, testing_images>>
    /\ UNCHANGED notSplitVars

\* Lines 177-188 with any sample that .sample(n=1) can draw.
BackfillStep == \E s \in Samples(patches_df) : Backfill(s)

SplitNext ==
    \/ FirstSplit
    \/ SecondSplit
    \/ CreateFrames
    \/ BackfillStep

TrainIdle ==
    /\ num_epochs = 0
    /\ e_idx = 0
    /\ train_loss = 0
    /\ valid_loss = 0
    /\ best_score = Inf
    /\ best_epoch = 0
    /\ since_best = 0
    /\ lr_halvings = 0
    /\ weights = {}
    /\ first_seen = [l \in Losses |-> 0]
    /\ seg_pc = "exited"
    /\ loop_exit = "none"
    /\ best_weights = 0
    /\ best_model_copy = 0

InitSplitSpec == SplitInit /\ TrainIdle /\ DownloadIdle /\ ImageWindowIdle /\ ExportIdle /\ SelectIdle /\ BrowseIdle /\ MainIdle /\ SpotlightIdle /\ DeployIdle

SpecSplit == InitSplitSpec /\ [][SplitNext]_vars

(***************************************************************************)
(* The downloader (CoralNet_API/CoralNet_Download.py).                     *)
(***************************************************************************)
StageOrder == <<"metadata", "labelset", "images", "annotations">>

\* Mutation of NextStage: the labelset stage is skipped.
NextStage_SkipLabelset(stage) ==
    CASE stage = "metadata" -> "images"
      [] stage = "labelset" -> "images"
      [] stage = "images" -> "annotations"
      [] OTHER -> "returned"

\* The position download_data takes up after the named stage has ended
\* without ending the process.
NextStage(stage) ==
    CASE stage = "metadata" -> "labelset"
      [] stage = "labelset" -> "images"
      [] stage = "images" -> "annotations"
      [] OTHER -> "returned"

Pages == 1..MaxPages
Paths == 1..NumPaths
Urls == 1..NumPaths
StatusCodes == {200, 404}

\* Mutation of DownloadImageCall: the test for an existing file is missing.
DownloadImageCall_NoExistsCheck(image_url, image_path, sc, fs) ==
    [image_url |-> image_url, image_path |-> image_path,
     requested |-> TRUE, downloaded |-> (sc = 200)]

\* download_image(image_url, image_path) with the files fs on disk, the
\* server answering with status code sc when it is asked: the call's record
\* (whether a request was made, and the flag returned).
DownloadImageCall(image_url, image_path, sc, fs) ==
    IF image_path \in fs
        THEN [image_url |-> image_url, image_path |-> image_path,
              requested |-> FALSE, downloaded |-> TRUE]
        ELSE [image_url |-> image_url, image_path |-> image_path,
              requested |-> TRUE, downloaded |-> (sc = 200)]

\* The files on disk after the call.
FilesAfter(call, fs) ==
    IF call.requested /\ call.downloaded THEN fs \cup {call.image_path} ELSE fs

DownloadInit ==
    /\ dd_pc = "metadata"
    /\ stages_run = <<>>
    /\ exit_stage = "none"
    /\ meta = "unset"
    /\ labelset = "unset"
    /\ dd_images = "unset"
    /\ annotations = "unset"
    /\ image_table = <<>>
    /\ futures = {}
    /\ image_urls = <<>>
    /\ url_failed = {}
    /\ handed = NotCalled
    /\ dl_pending = {}
    /\ expired_images = {}
    /\ files \in SUBSET Pages
    /\ dl_calls = <<>>

\* sys.exit(1) inside a stage: SystemExit is not an Exception, so no handler
\* of download_data catches it.
SysExit(stage) ==
    /\ dd_pc' = "process_exit"
    /\ exit_stage' = stage

MetadataOutcomes == {"ok", "None", "raise", "no_access"}

\* download_data, first try block, with download_metadata.
MetadataStage(outcome) ==
    /\ dd_pc = "metadata"
    /\ stages_run' = Append(stages_run, "metadata")
    /\ IF outcome = "no_access"
          THEN /\ SysExit("metadata")
               /\ UNCHANGED meta
          ELSE /\ meta' = IF outcome = "ok" THEN "meta" ELSE "None"
               /\ dd_pc' = NextStage("metadata")
               /\ UNCHANGED exit_stage
    /\ UNCHANGED <<labelset, dd_images, annotations, image_table, futures,
                   image_urls, url_failed, handed, dl_pending, expired_images,
                   files, dl_calls>>
    /\ UNCHANGED notDlVars

MetadataStep == \E outcome \in MetadataOutcomes : MetadataStage(outcome)

LabelsetOutcomes == {"clicked", "None", "raise", "no_access"}

\* download_data, second try block, with download_labelset up to the click
\* on the export button.
LabelsetStage(outcome) ==
    /\ dd_pc = "labelset"
    /\ stages_run' = Append(stages_run, "labelset")
    /\ IF outcome = "no_access"
          THEN /\ SysExit("labelset")
               /\ UNCHANGED labelset
          ELSE IF outcome = "clicked"
          THEN /\ dd_pc' = "labelset_wait"
               /\ UNCHANGED <<labelset, exit_stage>>
          ELSE /\ labelset' = "None"
               /\ dd_pc' = NextStage("labelset")
               /\ UNCHANGED exit_stage
    /\ UNCHANGED <<meta, dd_images, annotations, image_table, futures,
                   image_urls, url_failed, handed, dl_pending, expired_images,
                   files, dl_calls>>
    /\ UNCHANGED notDlVars

LabelsetStep == \E outcome \in LabelsetOutcomes : LabelsetStage(outcome)

\* download_labelset: the loop waiting for labelset.csv ends when the file
\* exists; the table is then read, or reading it fails.
LabelsetFileAppears(readable) ==
    /\ dd_pc = "labelset_wait"
    /\ labelset' = IF readable THEN "labelset" ELSE "None"
    /\ dd_pc' = NextStage("labelset")
    /\ UNCHANGED <<stages_run, exit_stage, meta, dd_images, annotations,
                   image_table, futures, image_urls, url_failed, handed,
                   dl_pending, expired_images, files, dl_calls>>
    /\ UNCHANGED notDlVars

LabelsetWaitStep == \E readable \in BOOLEAN : LabelsetFileAppears(readable)

\* The images stage fails with an exception that download_data catches.
ImagesStageFails ==
    /\ dd_images' = "None"
    /\ dd_pc' = NextStage("images")

ImagesOutcomes == {"ok", "None", "raise", "no_access"}

\* download_data, third try block: get_images crawling n image rows.
GetImages(outcome, n) ==
    /\ dd_pc = "images"
    /\ stages_run' = Append(stages_run, "images")
    /\ IF outcome = "no_access"
          THEN /\ SysExit("images")
               /\ UNCHANGED <<dd_images, image_table>>
          ELSE IF outcome = "ok"
          THEN /\ image_table' = [i \in 1..n |-> [image_page |-> i, image_name |-> i]]
               /\ dd_pc' = "get_image_urls"
               /\ UNCHANGED <<dd_images, exit_stage>>
          ELSE /\ ImagesStageFails
               /\ UNCHANGED <<image_table, exit_stage>>
    /\ UNCHANGED <<meta, labelset, annotations, futures, image_urls,
                   url_failed, handed, dl_pending, expired_images, files,
                   dl_calls>>
    /\ UNCHANGED notDlVars

GetImagesStep ==
    \E outcome \in ImagesOutcomes, n \in 0..MaxPages : GetImages(outcome, n)

\* get_image_urls up to the submission of one get_image_url task per row;
\* logging in may raise.
GetImageUrlsStart(logged_in) ==
    /\ dd_pc = "get_image_urls"
    /\ IF logged_in
          THEN /\ futures' = DOMAIN image_table
               /\ image_urls' = <<>>
               /\ dd_pc' = "as_completed"
               /\ UNCHANGED dd_images
          ELSE /\ ImagesStageFails
               /\ UNCHANGED <<futures, image_urls>>
    /\ UNCHANGED <<stages_run, exit_stage, meta, labelset, annotations,
                   image_table, url_failed, handed, dl_pending,
                   expired_images, files, dl_calls>>
    /\ UNCHANGED notDlVars

GetImageUrlsStartStep == \E logged_in \in BOOLEAN : GetImageUrlsStart(logged_in)

\* get_image_urls, one turn of the as_completed loop: the task of row i is
\* the next to complete; its URL is appended when it was resolved.
UrlCompleted(i, resolved) ==
    /\ dd_pc = "as_completed"
    /\ i \in futures
    /\ futures' = futures \ {i}
    /\ image_urls' = IF resolved
                        THEN Append(image_urls, image_table[i].image_page)
                        ELSE image_urls
    /\ url_failed' = IF resolved THEN url_failed ELSE url_failed \cup {i}
    /\ UNCHANGED <<dd_pc, stages_run, exit_stage, meta, labelset, dd_images,
                   annotations, image_table, handed, dl_pending,
                   expired_images, files, dl_calls>>
    /\ UNCHANGED notDlVars

UrlCompletedStep ==
    \E i \in Pages, resolved \in BOOLEAN : UrlCompleted(i, resolved)

\* download_data line 796: the list becomes the column image_url, by
\* position; a list of another length than the table raises ValueError.
WithUrls(table, urls) ==
    [i \in DOMAIN table |->
        [image_page |-> table[i].image_page, image_name |-> table[i].image_name,
         image_url |-> urls[i]]]

\* The assignment, and download_images up to the submission of one
\* download_image task per row; saving images.csv may fail.
AssignUrls(csv_saved) ==
    /\ dd_pc = "as_completed"
    /\ futures = {}
    /\ IF Len(image_urls) # Len(image_table)
          THEN /\ ImagesStageFails
               /\ UNCHANGED <<handed, dl_pending>>
          ELSE /\ handed' = [called |-> TRUE, rows |-> WithUrls(image_table, image_urls)]
               /\ IF csv_saved
                     THEN /\ dl_pending' = DOMAIN image_table
                          /\ dd_pc' = "download_images"
                          /\ UNCHANGED dd_images
                     ELSE /\ ImagesStageFails
                          /\ UNCHANGED dl_pending
    /\ UNCHANGED <<stages_run, exit_stage, meta, labelset, annotations,
                   image_table, futures, image_urls, url_failed,
                   expired_images, files, dl_calls>>
    /\ UNCHANGED notDlVars

AssignUrlsStep == \E csv_saved \in BOOLEAN : AssignUrls(csv_saved)

\* download_images: the download_image task of row i runs and completes.
DownloadRow(i, sc) ==
    /\ dd_pc = "download_images"
    /\ i \in dl_pending
    /\ LET call == DownloadImageCall(handed.rows[i].image_url,
                                     handed.rows[i].image_name, sc, files)
       IN  /\ dl_calls' = Append(dl_calls, call)
           /\ files' = FilesAfter(call, files)
           /\ expired_images' = IF call.downloaded
                                   THEN expired_images
                                   ELSE expired_images \cup {handed.rows[i].image_name}
    /\ dl_pending' = dl_pending \ {i}
    /\ UNCHANGED <<dd_pc, stages_run, exit_stage, meta, labelset, dd_images,
                   annotations, image_table, futures, image_urls, url_failed,
                   handed>>
    /\ UNCHANGED notDlVars

DownloadRowStep == \E i \in Pages, sc \in StatusCodes : DownloadRow(i, sc)

\* download_images returns; download_data keeps the table as images.
DownloadImagesDone ==
    /\ dd_pc = "download_images"
    /\ dl_pending = {}
    /\ dd_images' = "table"
    /\ dd_pc' = NextStage("images")
    /\ UNCHANGED <<stages_run, exit_stage, meta, labelset, annotations,
                   image_table, futures, image_urls, url_failed, handed,
                   dl_pending, expired_images, files, dl_calls>>
    /\ UNCHANGED notDlVars

\* The failures download_annotations raises inside its try block and captures
\* there: inaccessible source, missing export form, non-200 response to the
\* form, file not saved.
CapturedFailures == {"no_access", "no_form", "not_200", "not_saved"}

\* "raise": a failure before the try block (the login request).
AnnotationsOutcomes == {"ok", "raise"} \cup CapturedFailures

\* download_data, fourth try block: download_annotations returns the pair
\* (driver, annotations), which download_data keeps whole, or raises.
AnnotationsStage(outcome) ==
    /\ dd_pc = "annotations"
    /\ stages_run' = Append(stages_run, "annotations")
    /\ annotations' = CASE outcome = "ok" -> "pair_with_table"
                        [] outcome \in CapturedFailures -> "pair_with_None"
                        [] OTHER -> "None"
    /\ dd_pc' = NextStage("annotations")
    /\ UNCHANGED <<exit_stage, meta, labelset, dd_images, image_table, futures,
                   image_urls, url_failed, handed, dl_pending, expired_images,
                   files, dl_calls>>
    /\ UNCHANGED notDlVars

AnnotationsStep == \E outcome \in AnnotationsOutcomes : AnnotationsStage(outcome)

DownloadNext ==
    \/ MetadataStep
    \/ LabelsetStep
    \/ LabelsetWaitStep
    \/ GetImagesStep
    \/ GetImageUrlsStartStep
    \/ UrlCompletedStep
    \/ AssignUrlsStep
    \/ DownloadRowStep
    \/ DownloadImagesDone
    \/ AnnotationsStep

InitDownloadSpec == DownloadInit /\ TrainIdle /\ SplitIdle /\ ImageWindowIdle /\ ExportIdle /\ SelectIdle /\ BrowseIdle /\ MainIdle /\ SpotlightIdle /\ DeployIdle

SpecDownload == InitDownloadSpec /\ [][DownloadNext]_vars

(***************************************************************************)
(* download_image called any number of times, with any arguments.          *)
(***************************************************************************)
DownloadImageInit ==
    /\ dd_pc = "returned"
    /\ stages_run = <<>>
    /\ exit_stage = "none"
    /\ meta = "unset"
    /\ labelset = "unset"
    /\ dd_images = "unset"
    /\ annotations = "unset"
    /\ image_table = <<>>
    /\ futures = {}
    /\ image_urls = <<>>
    /\ url_failed = {}
    /\ handed = NotCalled
    /\ dl_pending = {}
    /\ expired_images = {}
    /\ files \in SUBSET Paths
    /\ dl_calls = <<>>

\* One call download_image(image_url, image_path), the server answering
\* with status code sc when it is asked.
DownloadImage(image_url, image_path, sc) ==
    /\ Len(dl_calls) < MaxCalls
    /\ LET call == DownloadImageCall(image_url, image_path, sc, files)
       IN  /\ dl_calls' = Append(dl_calls, call)
           /\ files' = FilesAfter(call, files)
    /\ UNCHANGED <<dd_pc, stages_run, exit_stage, meta, labelset, dd_images,
                   annotations, image_table, futures, image_urls, url_failed,
                   handed, dl_pending, expired_images>>
    /\ UNCHANGED notDlVars

DownloadImageStep ==
    \E image_url \in Urls, image_path \in Paths, sc \in StatusCodes :
        DownloadImage(image_url, image_path, sc)

DownloadImageNext == DownloadImageStep

InitDownloadImageSpec == DownloadImageInit /\ TrainIdle /\ SplitIdle /\ ImageWindowIdle /\ ExportIdle /\ SelectIdle /\ BrowseIdle /\ MainIdle /\ SpotlightIdle /\ DeployIdle

SpecDownloadImage == InitDownloadImageSpec /\ [][DownloadImageNext]_vars

(***************************************************************************)
(* The image window (toolbox/QtImage.py).                                  *)
(***************************************************************************)
MAX_CONCURRENT_THREADS == 8
THROTTLE_INTERVAL == 50

\* The image files the user works with.  The loading pipeline only tests
\* whether a path is imported and whether it is the selected one, so it is
\* run with imports of the files 1 and 2; the navigation through the
\* filtered list is run with all three.
ImageFiles == {1, 2, 3}
None == 0

\* A worker just started by _process_image_queue for image_path.
NewWorker(image_path) ==
    [image_path |-> image_path, thread |-> "run", signals |-> <<>>, listed |-> TRUE]

\* worker.isRunning(): the thread runs from start() until it has exited,
\* which is after run() has emitted its signals.
IsRunning(w) == w.thread # "exited"

\* The workers of current_workers whose thread is running.
CurrentWorkers(ws) == {w \in BagToSet(ws) : w.listed}

RECURSIVE Copies(_, _)
Copies(ws, S) ==
    IF S = {} THEN 0
    ELSE LET w == CHOOSE x \in S : TRUE
         IN  CopiesIn(w, ws) + Copies(ws, S \ {w})

NumCurrentWorkers(ws) == Copies(ws, CurrentWorkers(ws))

\* Number of worker threads that are running.
NumRunning(ws) == Copies(ws, {w \in BagToSet(ws) : IsRunning(w)})

Replace(ws, w, v) == (ws (-) SetToBag({w})) (+) SetToBag({v})

\* A worker whose thread has exited and whose signals are all delivered is
\* referenced by nothing any more.
Retire(ws, w, v) ==
    IF v.thread = "exited" /\ v.signals = <<>>
        THEN ws (-) SetToBag({w})
        ELSE Replace(ws, w, v)

\* The fields of the window, as one record that the handlers transform.
Window ==
    [image_paths |-> image_paths, filtered_image_paths |-> filtered_image_paths,
     selected_image_path |-> selected_image_path, images |-> images,
     rasterio_images |-> rasterio_images, image_load_queue |-> image_load_queue,
     workers |-> workers, timers |-> timers, elapsed |-> elapsed,
     override_cursors |-> override_cursors, closed |-> closed,
     selections |-> selections, loads |-> loads, errors |-> errors]

Becomes(s) ==
    /\ image_paths' = s.image_paths
    /\ filtered_image_paths' = s.filtered_image_paths
    /\ selected_image_path' = s.selected_image_path
    /\ images' = s.images
    /\ rasterio_images' = s.rasterio_images
    /\ image_load_queue' = s.image_load_queue
    /\ workers' = s.workers
    /\ timers' = s.timers
    /\ elapsed' = s.elapsed
    /\ override_cursors' = s.override_cursors
    /\ closed' = s.closed
    /\ selections' = s.selections
    /\ loads' = s.loads
    /\ errors' = s.errors

InSeq(x, seq) == \E i \in DOMAIN seq : seq[i] = x

\* QApplication.restoreOverrideCursor()
Pop(depth) == IF depth > 0 THEN depth - 1 ELSE 0

\* QTimer.singleShot(0, self._process_image_queue)
SingleShot(s) == [s EXCEPT !.timers = @ + 1]

\* on_worker_finished(None)
OnWorkerFinishedNone(s) == SingleShot(s)

\* on_worker_finished(w), run for the signal finished of w: v is w with
\* that signal taken off its queued signals.
OnWorkerFinished(s, w, v) ==
    SingleShot([s EXCEPT !.workers = Retire(@, w, [v EXCEPT !.listed = FALSE])])

\* The limit test of _process_image_queue.
AtLimit(ws) == NumCurrentWorkers(ws) >= MAX_CONCURRENT_THREADS

\* Mutation of ProcessImageQueue: the path is read at the head of the queue
\* but not taken off it.
ProcessImageQueue_NoDequeue(s, raises) ==
    IF s.image_load_queue = <<>> \/ AtLimit(s.workers)
        THEN s
        ELSE LET image_path == Head(s.image_load_queue)
                 t == [s EXCEPT !.selected_image_path = image_path,
                                !.override_cursors = @ + 1]
             IN  IF raises
                     THEN OnWorkerFinishedNone([t EXCEPT !.errors = @ + 1])
                     ELSE [t EXCEPT !.workers = @ (+) SetToBag({NewWorker(image_path)})]

\* _process_image_queue(); raises: showing the preview raises an exception
\* (after the override cursor was set).
ProcessImageQueue(s, raises) ==
    IF s.image_load_queue = <<>> \/ AtLimit(s.workers)
        THEN s
        ELSE LET image_path == Head(s.image_load_queue)
                 t == [s EXCEPT !.image_load_queue = Tail(@),
                                !.selected_image_path = image_path,
                                !.override_cursors = @ + 1]
             IN  IF raises
                     THEN OnWorkerFinishedNone([t EXCEPT !.errors = @ + 1])
                     ELSE [t EXCEPT !.workers = @ (+) SetToBag({NewWorker(image_path)})]

\* Mutation of Throttled: no request is ignored.
Throttled_Never(s) == FALSE

\* time_since_last_selection < self.THROTTLE_INTERVAL
Throttled(s) == s.elapsed < THROTTLE_INTERVAL

\* load_image_by_path(image_path), update = False.
LoadImageByPath(s, image_path, raises) ==
    IF Throttled(s) THEN s
    ELSE IF ~InSeq(image_path, s.image_paths) THEN s
    ELSE IF image_path = s.selected_image_path THEN s
    ELSE ProcessImageQueue([s EXCEPT !.elapsed = 0,
                                     !.image_load_queue = Append(@, image_path),
                                     !.selections = @ + 1], raises)

RECURSIVE AddImages(_, _)
AddImages(paths, file_names) ==
    IF file_names = {} THEN paths
    ELSE LET f == CHOOSE x \in file_names : \A y \in file_names : x <= y
         IN  AddImages(IF InSeq(f, paths) THEN paths ELSE Append(paths, f),
                       file_names \ {f})

\* filter_images() with an empty search bar and no checkbox ticked.
FilterImages(s) == [s EXCEPT !.filtered_image_paths = s.image_paths]

\* import_images(), the user having picked file_names.
ImportImagesOf(s, file_names, raises) ==
    LET t == FilterImages([s EXCEPT !.override_cursors = @ + 1,
                                    !.image_paths = AddImages(@, file_names)])
        u == LoadImageByPath(t, t.image_paths[Len(t.image_paths)], raises)
    IN  [u EXCEPT !.override_cursors = Pop(@)]

\* on_full_resolution_image_loaded(full_resolution_image), the bitmap
\* having been loaded from the file loaded_from.
OnFullResolutionImageLoaded(s, loaded_from) ==
    IF s.selected_image_path = None THEN s
    ELSE [s EXCEPT !.rasterio_images[s.selected_image_path] = s.selected_image_path,
                   !.images[s.selected_image_path] = loaded_from,
                   !.override_cursors = Pop(@)]

RECURSIVE JoinAll(_, _)
\* closeEvent's loop: cancel(), quit() and wait() on every worker of S. A
\* cancelled run() emits finished only.
JoinAll(ws, S) ==
    IF S = {} THEN ws
    ELSE LET w == CHOOSE x \in S : TRUE
             n == CopiesIn(w, ws)
             v == [w EXCEPT !.thread = "exited", !.listed = FALSE,
                            !.signals = IF w.thread = "run" THEN <<"finished">> ELSE @]
             rest == [x \in (DOMAIN ws) \ {w} |-> ws[x]]
         IN  JoinAll(rest, S \ {w}) (+) [x \in {v} |-> n]

\* Whether one more exception may be raised.
MayRaise == IF errors < MaxErrors THEN BOOLEAN ELSE {FALSE}

ImageWindowInit ==
    /\ image_paths = <<>>
    /\ filtered_image_paths = <<>>
    /\ selected_image_path = None
    /\ images = [p \in ImageFiles |-> None]
    /\ rasterio_images = [p \in ImageFiles |-> None]
    /\ image_load_queue = <<>>
    /\ workers = EmptyBag
    /\ timers = 0
    /\ elapsed = 0
    /\ override_cursors = 0
    /\ closed = FALSE
    /\ selections = 0
    /\ loads = 0
    /\ errors = 0

\* TickMs milliseconds pass.
Tick ==
    /\ elapsed < THROTTLE_INTERVAL
    /\ elapsed' = IF elapsed + TickMs > THROTTLE_INTERVAL
                     THEN THROTTLE_INTERVAL
                     ELSE elapsed + TickMs
    /\ UNCHANGED <<image_paths, filtered_image_paths, selected_image_path,
                   images, rasterio_images, image_load_queue, workers, timers,
                   override_cursors, closed, selections, loads, errors>>
    /\ UNCHANGED notIwVars

\* The user imports file_names.
ImportImages(file_names, raises) ==
    /\ ~closed
    /\ selections < MaxSelections
    /\ Becomes(ImportImagesOf(Window, file_names, raises))
    /\ UNCHANGED notIwVars

ImportImagesStep ==
    \E file_names \in {{1}, {1, 2}}, raises \in MayRaise :
        ImportImages(file_names, raises)

\* A caller of load_image_by_path asks for image_path: a click on a row,
\* next or previous image.
LoadImage(image_path, raises) ==
    /\ ~closed
    /\ selections < MaxSelections
    /\ Becomes(LoadImageByPath(Window, image_path, raises))
    /\ UNCHANGED notIwVars

LoadImageStep ==
    \E image_path \in ImageFiles, raises \in MayRaise : LoadImage(image_path, raises)

\* A timer set by on_worker_finished fires.
TimerFires(raises) ==
    /\ timers > 0
    /\ Becomes(ProcessImageQueue([Window EXCEPT !.timers = @ - 1], raises))
    /\ UNCHANGED notIwVars

TimerStep == \E raises \in MayRaise : TimerFires(raises)

\* LoadFullResolutionImageWorker.run of worker w, not cancelled: the bitmap
\* is loaded and imageLoaded emitted, or an exception makes it emit
\* errorOccurred; finished is emitted last, the thread still running.
WorkerRun(w, signal) ==
    /\ w \in BagToSet(workers)
    /\ w.thread = "run"
    /\ loads < MaxLoads
    /\ loads' = loads + 1
    /\ signal = "errorOccurred" => errors < MaxErrors
    /\ errors' = IF signal = "errorOccurred" THEN errors + 1 ELSE errors
    /\ workers' = Replace(workers, w, [w EXCEPT !.thread = "emitted",
                                               !.signals = <<signal, "finished">>])
    /\ UNCHANGED <<image_paths, filtered_image_paths, selected_image_path,
                   images, rasterio_images, image_load_queue, timers, elapsed,
                   override_cursors, closed, selections>>
    /\ UNCHANGED notIwVars

WorkerRunStep ==
    \E w \in BagToSet(workers), signal \in {"imageLoaded", "errorOccurred"} :
        WorkerRun(w, signal)

\* The thread of w exits after run() has returned.
ThreadExit(w) ==
    /\ w \in BagToSet(workers)
    /\ w.thread = "emitted"
    /\ workers' = Retire(workers, w, [w EXCEPT !.thread = "exited", !.listed = FALSE])
    /\ UNCHANGED <<image_paths, filtered_image_paths, selected_image_path,
                   images, rasterio_images, image_load_queue, timers, elapsed,
                   override_cursors, closed, selections, loads, errors>>
    /\ UNCHANGED notIwVars

ThreadExitStep == \E w \in BagToSet(workers) : ThreadExit(w)

\* The main thread runs the slot of the first queued signal of worker w
\* (the signals of one worker arrive in the order of their emission).
Deliver(w) ==
    /\ w \in BagToSet(workers)
    /\ w.signals # <<>>
    /\ LET v == [w EXCEPT !.signals = Tail(@)]
           s == Window
       IN  CASE Head(w.signals) = "imageLoaded" ->
                  Becomes(OnFullResolutionImageLoaded(
                              [s EXCEPT !.workers = Replace(@, w, v)], w.image_path))
             [] Head(w.signals) = "errorOccurred" ->
                  Becomes(OnWorkerFinishedNone([s EXCEPT !.workers = Replace(@, w, v)]))
             [] OTHER ->
                  Becomes(OnWorkerFinished(s, w, v))
    /\ UNCHANGED notIwVars

DeliverStep == \E w \in BagToSet(workers) : Deliver(w)

\* closeEvent(event)
CloseEvent ==
    /\ ~closed
    /\ workers' = JoinAll(workers, CurrentWorkers(workers))
    /\ override_cursors' = Pop(override_cursors)
    /\ closed' = TRUE
    /\ UNCHANGED <<image_paths, filtered_image_paths, selected_image_path,
                   images, rasterio_images, image_load_queue, timers, elapsed,
                   selections, loads, errors>>
    /\ UNCHANGED notIwVars

ImageWindowNext ==
    \/ Tick
    \/ ImportImagesStep
    \/ LoadImageStep
    \/ TimerStep
    \/ WorkerRunStep
    \/ ThreadExitStep
    \/ DeliverStep
    \/ CloseEvent

InitSpec == ImageWindowInit /\ TrainIdle /\ SplitIdle /\ DownloadIdle /\ ExportIdle /\ SelectIdle /\ BrowseIdle /\ MainIdle /\ SpotlightIdle /\ DeployIdle

Spec == InitSpec /\ [][ImageWindowNext]_vars

(***************************************************************************)
(* The CoralNet exporter.                                                  *)
(***************************************************************************)
\* The annotation stores: every sequence of serializable / unserializable
\* annotations of at most MaxAnnotations entries.
AnnotationStores ==
    UNION {[1..n -> BOOLEAN] : n \in 0..MaxAnnotations}

\* The destination before an export: absent, or a file of an earlier export.
Destinations ==
    {[exists |-> FALSE, rows |-> <<>>], [exists |-> TRUE, rows |-> <<0>>]}

\* QApplication.setOverrideCursor / restoreOverrideCursor on a stack of depth d.
SetOverrideCursor(d) == d + 1
RestoreOverrideCursor(d) == IF d > 0 THEN d - 1 ELSE 0

\* The annotations serialized before the loop ends: all of them, or those in
\* front of the first one whose to_coralnet() raises.
RECURSIVE Serialized(_, _)
Serialized(anns, i) ==
    IF i > Len(anns) \/ ~anns[i] THEN i - 1 ELSE Serialized(anns, i + 1)

\* The outcomes of df.write_csv(file_path) for a table of n rows: the file is
\* written in full; the file cannot be opened; or the write fails after the
\* file was opened (and truncated) and k rows reached it.
WriteOutcomes(n) ==
    {[raised |-> FALSE, opened |-> TRUE, written |-> n],
     [raised |-> TRUE, opened |-> FALSE, written |-> 0]}
    \cup {[raised |-> TRUE, opened |-> TRUE, written |-> k] : k \in 0..n}

\* The destination after write_csv with the outcome w.
WriteCsv(file, w) ==
    IF w.opened THEN [exists |-> TRUE, rows |-> [i \in 1..w.written |-> i]] ELSE file

\* Mutation of Try: each row is written to the destination as soon as it is
\* serialized.
Try_Streaming(anns, file, w) ==
    LET k == Serialized(anns, 1) IN
      IF k < Len(anns)
        THEN [raised |-> "to_coralnet", df |-> [i \in 1..k |-> i], progress |-> k,
              dialog |-> "warning",
              destination |-> [exists |-> TRUE, rows |-> [i \in 1..k |-> i]]]
        ELSE [raised |-> IF w.raised THEN "write_csv" ELSE "none",
              df |-> [i \in 1..k |-> i], progress |-> k,
              dialog |-> IF w.raised THEN "warning" ELSE "information",
              destination |-> WriteCsv(file, w)]

\* The try block with its except clause: the rows are collected in the list
\* df, then the table is written in one call; the information dialog is
\* shown after the write, the warning dialog by the except clause.
Try(anns, file, w) ==
    LET k == Serialized(anns, 1) IN
      IF k < Len(anns)
        THEN [raised |-> "to_coralnet", df |-> [i \in 1..k |-> i], progress |-> k,
              dialog |-> "warning", destination |-> file]
        ELSE [raised |-> IF w.raised THEN "write_csv" ELSE "none",
              df |-> [i \in 1..k |-> i], progress |-> k,
              dialog |-> IF w.raised THEN "warning" ELSE "information",
              destination |-> WriteCsv(file, w)]

ExportInit ==
    /\ annotations_dict \in AnnotationStores
    /\ destination \in Destinations
    /\ ex_cursor \in {0, 1}
    /\ progress_bars = 0
    /\ exports = 0
    /\ last_export = NoExport

\* export_annotations() when the file dialog is cancelled (file_path = '').
ExportCancelled ==
    /\ UNCHANGED notExVars
    /\ exports < MaxExports
    /\ exports' = exports + 1
    /\ last_export' = [NoExport EXCEPT !.cursor_before = ex_cursor,
                                       !.destination_before = destination]
    /\ UNCHANGED <<annotations_dict, destination, ex_cursor, progress_bars>>

\* export_annotations() with a destination chosen; w is what write_csv does
\* if it is reached.
ExportAnnotations(w) ==
    /\ UNCHANGED notExVars
    /\ exports < MaxExports
    /\ LET busy == SetOverrideCursor(ex_cursor)
           shown == progress_bars + 1
           t == Try(annotations_dict, destination, w)
       IN  /\ destination' = t.destination
           /\ ex_cursor' = RestoreOverrideCursor(busy)
           /\ progress_bars' = shown - 1
           /\ last_export' = [file_path |-> TRUE,
                              total_annotations |-> Len(annotations_dict),
                              raised |-> t.raised, df |-> t.df,
                              progress |-> t.progress, dialog |-> t.dialog,
                              cursor_before |-> ex_cursor,
                              destination_before |-> destination]
    /\ exports' = exports + 1
    /\ UNCHANGED annotations_dict

ExportAnnotationsStep ==
    \E w \in WriteOutcomes(Len(annotations_dict)) : ExportAnnotations(w)

\* The annotation store changes between two exports.
EditAnnotations(anns) ==
    /\ UNCHANGED notExVars
    /\ exports < MaxExports
    /\ anns # annotations_dict
    /\ annotations_dict' = anns
    /\ UNCHANGED <<destination, ex_cursor, progress_bars, exports, last_export>>

EditAnnotationsStep == \E anns \in AnnotationStores : EditAnnotations(anns)

ExportNext ==
    \/ ExportCancelled
    \/ ExportAnnotationsStep
    \/ EditAnnotationsStep

InitExportSpec == ExportInit /\ TrainIdle /\ SplitIdle /\ DownloadIdle /\ ImageWindowIdle /\ SelectIdle /\ BrowseIdle /\ MainIdle /\ SpotlightIdle /\ DeployIdle

SpecExport == InitExportSpec /\ [][ExportNext]_vars

(***************************************************************************)
(* The selection tool.                                                     *)
(***************************************************************************)
\* The scene positions of the mouse: a grid of 5-pixel steps.
Grid == {5 * k : k \in 0..MaxCoord}
Positions == Grid \X Grid

Sub(p, q) == <<p[1] - q[1], p[2] - q[2]>>
Add(p, q) == <<p[1] + q[1], p[2] + q[2]>>

\* QRectF(x, y, w, h).contains(position): the edges belong to the rectangle.
QRectFContains(x, y, w, h, position) ==
    /\ x <= position[1] /\ position[1] <= x + w
    /\ y <= position[2] /\ position[2] <= y + h

\* annotation.contains_point(position) for the current corners.
ContainsPoint(annotation, position) ==
    /\ annotation.top_left[1] <= position[1]
    /\ position[1] <= annotation.bottom_right[1]
    /\ annotation.top_left[2] <= position[2]
    /\ position[2] <= annotation.bottom_right[2]

\* detect_resize_handle: the first handle, in the order of the dict, whose
\* 10x10 square holds the position.
DetectResizeHandle(annotation, position) ==
    LET top_left == annotation.top_left
        bottom_right == annotation.bottom_right
    IN  IF annotation.kind # "rectangle" THEN "None"
        ELSE IF QRectFContains(top_left[1] - 5, top_left[2] - 5, 10, 10, position)
          THEN "top_left"
        ELSE IF QRectFContains(bottom_right[1] - 5, top_left[2] - 5, 10, 10, position)
          THEN "top_right"
        ELSE IF QRectFContains(top_left[1] - 5, bottom_right[2] - 5, 10, 10, position)
          THEN "bottom_left"
        ELSE IF QRectFContains(bottom_right[1] - 5, bottom_right[2] - 5, 10, 10, position)
          THEN "bottom_right"
        ELSE "None"

\* Mutation of ResizeAnnotation: the top_right handle moves the whole top_left
\* corner.
ResizeAnnotation_Corner(annotation, handle, delta) ==
    IF annotation.kind # "rectangle" THEN annotation
    ELSE IF handle = "top_left"
      THEN [annotation EXCEPT !.top_left = Add(@, delta)]
    ELSE IF handle = "top_right"
      THEN [annotation EXCEPT !.top_left = Add(@, delta),
                              !.bottom_right = <<@[1] + delta[1], @[2]>>]
    ELSE IF handle = "bottom_left"
      THEN [annotation EXCEPT !.top_left = <<@[1] + delta[1], @[2]>>,
                              !.bottom_right = <<@[1], @[2] + delta[2]>>]
    ELSE IF handle = "bottom_right"
      THEN [annotation EXCEPT !.bottom_right = Add(@, delta)]
    ELSE annotation

\* resize_annotation(annotation, delta) with self.resize_handle = handle.
ResizeAnnotation(annotation, handle, delta) ==
    IF annotation.kind # "rectangle" THEN annotation
    ELSE IF handle = "top_left"
      THEN [annotation EXCEPT !.top_left = Add(@, delta)]
    ELSE IF handle = "top_right"
      THEN [annotation EXCEPT !.top_left = <<@[1], @[2] + delta[2]>>,
                              !.bottom_right = <<@[1] + delta[1], @[2]>>]
    ELSE IF handle = "bottom_left"
      THEN [annotation EXCEPT !.top_left = <<@[1] + delta[1], @[2]>>,
                              !.bottom_right = <<@[1], @[2] + delta[2]>>]
    ELSE IF handle = "bottom_right"
      THEN [annotation EXCEPT !.bottom_right = Add(@, delta)]
    ELSE annotation

\* set_annotation_location(id, new_center): the annotation is moved as a
\* whole, by the difference of the new and the old centre.
Moved(annotation, delta) ==
    [annotation EXCEPT !.top_left = Add(@, delta), !.bottom_right = Add(@, delta)]

\* The annotations under a position, topmost first: the items are sorted by
\* zValue, and the annotation with the larger id has the larger zValue.
ItemsAt(position) ==
    LET hit(id) == id \in DOMAIN scene /\ ContainsPoint(scene[id], position)
    IN  (IF hit(2) THEN <<2>> ELSE <<>>) \o (IF hit(1) THEN <<1>> ELSE <<>>)

\* The second annotation is a rectangle or a polygon (given by its bounds).
Kinds == {"rectangle", "polygon"}

SelectInit ==
    /\ \E kind \in Kinds :
         scene = <<[kind |-> "rectangle", top_left |-> <<5, 5>>, bottom_right |-> <<15, 15>>],
                   [kind |-> kind, top_left |-> <<10, 10>>, bottom_right |-> <<20, 20>>]>>
    /\ selected_annotation \in {0, 1, 2}
    /\ drag_start_pos = <<>>
    /\ resizing = FALSE
    /\ resize_handle = "None"
    /\ resize_start_pos = <<>>
    /\ left_button = FALSE
    /\ pressed = 0
    /\ last_move = "none"
    /\ events = 0

\* mousePressEvent with a button other than the left one.
OtherPress ==
    /\ UNCHANGED notStVars
    /\ events < MaxEvents
    /\ events' = events + 1
    /\ UNCHANGED <<scene, selected_annotation, drag_start_pos, resizing, resize_handle,
                   resize_start_pos, left_button, pressed, last_move>>

\* mousePressEvent with the left button at a position.  Only the topmost item
\* is handled: both ways through the loop body end in break.
MousePress(position) ==
    /\ UNCHANGED notStVars
    /\ events < MaxEvents
    /\ ~left_button
    /\ events' = events + 1
    /\ left_button' = TRUE
    /\ LET items == ItemsAt(position) IN
         IF items = <<>>
           THEN UNCHANGED <<selected_annotation, drag_start_pos, resizing,
                            resize_handle, resize_start_pos, pressed>>
           ELSE LET annotation == scene[Head(items)]
                    handle == DetectResizeHandle(annotation, position)
                IN  IF annotation.kind = "rectangle"
                      THEN /\ resize_handle' = handle
                           /\ IF handle # "None"
                                THEN /\ resizing' = TRUE
                                     /\ resize_start_pos' = position
                                     /\ pressed' = Head(items)
                                     /\ UNCHANGED <<selected_annotation, drag_start_pos>>
                                ELSE /\ selected_annotation' = Head(items)
                                     /\ drag_start_pos' = position
                                     /\ UNCHANGED <<resizing, resize_start_pos, pressed>>
                      ELSE /\ selected_annotation' = Head(items)
                           /\ drag_start_pos' = position
                           /\ UNCHANGED <<resizing, resize_handle, resize_start_pos,
                                          pressed>>
    /\ UNCHANGED <<scene, last_move>>

MousePressStep == \E position \in Positions : MousePress(position)

\* mouseMoveEvent to current_pos; in_window is cursorInWindow(current_pos).
MouseMove(current_pos, in_window) ==
    /\ UNCHANGED notStVars
    /\ events < MaxEvents
    /\ events' = events + 1
    /\ IF resizing /\ resize_handle # "None"
         THEN /\ LET delta == Sub(current_pos, resize_start_pos) IN
                   scene' = IF selected_annotation = 0 THEN scene
                            ELSE [scene EXCEPT ![selected_annotation] =
                                     ResizeAnnotation(@, resize_handle, delta)]
              /\ resize_start_pos' = current_pos
              /\ last_move' = "resize"
              /\ UNCHANGED drag_start_pos
         ELSE IF left_button /\ selected_annotation # 0
           THEN /\ LET start == IF drag_start_pos = <<>> THEN current_pos
                                ELSE drag_start_pos
                       delta == Sub(current_pos, start)
                   IN  IF in_window
                         THEN /\ scene' = [scene EXCEPT ![selected_annotation] =
                                              Moved(@, delta)]
                              /\ drag_start_pos' = current_pos
                         ELSE /\ scene' = scene
                              /\ drag_start_pos' = start
                /\ last_move' = "drag"
                /\ UNCHANGED resize_start_pos
           ELSE /\ last_move' = "none"
                /\ UNCHANGED <<scene, drag_start_pos, resize_start_pos>>
    /\ UNCHANGED <<selected_annotation, resizing, resize_handle, left_button, pressed>>

MouseMoveStep ==
    \E current_pos \in Positions, in_window \in BOOLEAN : MouseMove(current_pos, in_window)

\* Mutation of MouseRelease: the handle is kept when the gesture ends.
MouseRelease_KeepHandle(left) ==
    /\ UNCHANGED notStVars
    /\ events < MaxEvents
    /\ events' = events + 1
    /\ left => left_button
    /\ left_button' = IF left THEN FALSE ELSE left_button
    /\ IF resizing
         THEN /\ resizing' = FALSE
              /\ resize_start_pos' = <<>>
              /\ pressed' = 0
              /\ UNCHANGED resize_handle
         ELSE UNCHANGED <<resizing, resize_handle, resize_start_pos, pressed>>
    /\ drag_start_pos' = <<>>
    /\ UNCHANGED <<scene, selected_annotation, last_move>>

\* mouseReleaseEvent (of any button).
MouseRelease(left) ==
    /\ UNCHANGED notStVars
    /\ events < MaxEvents
    /\ events' = events + 1
    /\ left => left_button
    /\ left_button' = IF left THEN FALSE ELSE left_button
    /\ IF resizing
         THEN /\ resizing' = FALSE
              /\ resize_handle' = "None"
              /\ resize_start_pos' = <<>>
              /\ pressed' = 0
         ELSE UNCHANGED <<resizing, resize_handle, resize_start_pos, pressed>>
    /\ drag_start_pos' = <<>>
    /\ UNCHANGED <<scene, selected_annotation, last_move>>

MouseReleaseStep == \E left \in BOOLEAN : MouseRelease(left)

SelectNext ==
    \/ OtherPress
    \/ MousePressStep
    \/ MouseMoveStep
    \/ MouseReleaseStep

InitSelectSpec ==
    SelectInit /\ TrainIdle /\ SplitIdle /\ DownloadIdle /\ ImageWindowIdle /\ ExportIdle /\ BrowseIdle /\ MainIdle /\ SpotlightIdle /\ DeployIdle

SpecSelect == InitSelectSpec /\ [][SelectNext]_vars

(***************************************************************************)
(* The image window as a browser.                                          *)
(***************************************************************************)
\* The search texts: empty, a text found in the name of file 2 only, and a
\* text found in no file name.
NoText == 0
NoMatch == 9
SearchTexts == {NoText, 2, NoMatch}

\* search_text in filename
InFilename(search_text, path) == search_text = path

Checkboxes ==
    {"has_annotations_checkbox", "needs_review_checkbox", "no_annotations_checkbox"}

\* The two checkboxes that update_<box>_checkbox unchecks, in its order.
Others(box) ==
    CASE box = "has_annotations_checkbox" ->
            <<"needs_review_checkbox", "no_annotations_checkbox">>
      [] box = "needs_review_checkbox" ->
            <<"has_annotations_checkbox", "no_annotations_checkbox">>
      [] box = "no_annotations_checkbox" ->
            <<"has_annotations_checkbox", "needs_review_checkbox">>

\* The fields of the window and of its filters, as one record.
Browser ==
    Window @@
    [has_annotations_checkbox |-> has_annotations_checkbox,
     needs_review_checkbox |-> needs_review_checkbox,
     no_annotations_checkbox |-> no_annotations_checkbox,
     search_bar |-> search_bar, search_timer |-> search_timer,
     image_dict |-> image_dict, store |-> store,
     show_confirmation_dialog |-> show_confirmation_dialog,
     seen |-> <<>>, raised |-> FALSE]

\* The state after a user event op that asked for the path requested.
BrowserBecomes(s, op, requested) ==
    /\ Becomes(s)
    /\ has_annotations_checkbox' = s.has_annotations_checkbox
    /\ needs_review_checkbox' = s.needs_review_checkbox
    /\ no_annotations_checkbox' = s.no_annotations_checkbox
    /\ search_bar' = s.search_bar
    /\ search_timer' = s.search_timer
    /\ image_dict' = s.image_dict
    /\ store' = s.store
    /\ show_confirmation_dialog' = s.show_confirmation_dialog
    /\ seen' = s.seen
    /\ last_event' = [op |-> op, requested |-> requested, raised |-> s.raised]
    /\ browse_events' = browse_events + 1

\* list.remove(x) on a list without duplicates.
Remove(seq, x) == SelectSeq(seq, LAMBDA y : y # x)

\* list.index(x), counted from 0.
RECURSIVE Index(_, _)
Index(seq, x) == IF Head(seq) = x THEN 0 ELSE 1 + Index(Tail(seq), x)

\* sorted(S) as a list.
RECURSIVE Sorted(_)
Sorted(S) ==
    IF S = {} THEN <<>>
    ELSE LET m == CHOOSE x \in S : \A y \in S : x <= y
         IN  <<m>> \o Sorted(S \ {m})

\* filter_image(path, ...) returns the path.
FilterImage(s, path) ==
    /\ s.search_bar # NoText => InFilename(s.search_bar, path)
    /\ s.has_annotations_checkbox => s.store[path] # "none"
    /\ s.needs_review_checkbox => s.store[path] = "review"
    /\ s.no_annotations_checkbox => s.store[path] = "none"

\* filter_images() for any state of the search bar and the checkboxes.
FilterImagesWith(s, raises) ==
    LET t == [s EXCEPT !.seen = Append(@, <<s.has_annotations_checkbox,
                                            s.needs_review_checkbox,
                                            s.no_annotations_checkbox>>)]
    IN  IF /\ t.search_bar = NoText
           /\ ~t.has_annotations_checkbox
           /\ ~t.needs_review_checkbox
           /\ ~t.no_annotations_checkbox
          THEN FilterImages(t)
          ELSE LET paths == {t.image_paths[i] : i \in DOMAIN t.image_paths}
                   u == [t EXCEPT !.filtered_image_paths =
                                      Sorted({p \in paths : FilterImage(t, p)})]
               IN  IF u.filtered_image_paths # <<>>
                     THEN LoadImageByPath(u, u.filtered_image_paths[1], raises)
                     ELSE [u EXCEPT !.selected_image_path = None]

\* Mutation of UpdateCheckbox: the other checkboxes are left as they are.
UpdateCheckbox_Keep(s, box, raises) == s

\* QCheckBox.setChecked, the stateChanged signal it emits when the state
\* changes, and the two slots of that signal in the order they were
\* connected: update_<box>_checkbox, then filter_images.
RECURSIVE SetChecked(_, _, _, _), UpdateCheckbox(_, _, _), StateChanged(_, _, _)
SetChecked(s, box, checked, raises) ==
    IF s[box] = checked THEN s
    ELSE StateChanged([s EXCEPT ![box] = checked], box, raises)

UpdateCheckbox(s, box, raises) ==
    IF s[box]
      THEN SetChecked(SetChecked(s, Others(box)[1], FALSE, raises),
                      Others(box)[2], FALSE, raises)
      ELSE s

StateChanged(s, box, raises) ==
    FilterImagesWith(UpdateCheckbox(s, box, raises), raises)

\* add_image for every new file of file_names, then filter_images() and
\* load_image_by_path(image_paths[-1]).
ImportImagesWith(s, file_names, raises) ==
    LET t == FilterImagesWith([s EXCEPT !.override_cursors = @ + 1,
                                        !.image_paths = AddImages(@, file_names),
                                        !.image_dict = @ \cup file_names], raises)
        u == LoadImageByPath(t, t.image_paths[Len(t.image_paths)], raises)
    IN  [u EXCEPT !.override_cursors = Pop(@)]

\* delete_image(image_path)
DeleteImage(s, image_path, raises) ==
    IF ~InSeq(image_path, s.image_paths) THEN s
    ELSE LET t == [s EXCEPT !.image_paths = Remove(@, image_path),
                            !.image_dict = @ \ {image_path},
                            !.filtered_image_paths = Remove(@, image_path),
                            !.store[image_path] = "none"]
         IN  IF t.filtered_image_paths # <<>>
               THEN LoadImageByPath(t, t.filtered_image_paths[1], raises)
               ELSE [t EXCEPT !.selected_image_path = None]

\* delete_selected_image(): the dialog is answered with Yes or No, with its
\* checkbox ticked or not.
DeleteSelectedImage(s, yes, do_not_show_again, raises) ==
    IF s.selected_image_path = None THEN s
    ELSE LET t == IF do_not_show_again
                    THEN [s EXCEPT !.show_confirmation_dialog = FALSE] ELSE s
         IN  IF yes THEN DeleteImage(t, t.selected_image_path, raises) ELSE t

\* The path that cycle_previous_image (step = -1) or cycle_next_image
\* (step = 1) passes to load_image_by_path.
CyclePath(s, step) ==
    LET current_index == Index(s.filtered_image_paths, s.selected_image_path)
        new_index == (current_index + step) % Len(s.filtered_image_paths)
    IN  s.filtered_image_paths[new_index + 1]

\* cycle_previous_image() / cycle_next_image(): list.index raises ValueError
\* when the selected path is not in the filtered list.
Cycle(s, step, raises) ==
    IF s.filtered_image_paths = <<>> THEN s
    ELSE IF ~InSeq(s.selected_image_path, s.filtered_image_paths)
      THEN [s EXCEPT !.raised = TRUE]
    ELSE LoadImageByPath(s, CyclePath(s, step), raises)

\* What the annotation window holds for the files before they are imported.
BrowseInit ==
    /\ has_annotations_checkbox = FALSE
    /\ needs_review_checkbox = FALSE
    /\ no_annotations_checkbox = FALSE
    /\ search_bar = NoText
    /\ search_timer = FALSE
    /\ image_dict = {}
    /\ store = [p \in ImageFiles |-> "none"]
    /\ show_confirmation_dialog = TRUE
    /\ seen = <<>>
    /\ last_event = NoEvent
    /\ browse_events = 0

\* Guard of every user event.
UserEvent == ~closed /\ browse_events < MaxBrowseEvents

\* The user imports file_names.
BrowseImport(file_names) ==
    /\ UserEvent
    /\ BrowserBecomes(ImportImagesWith(Browser, file_names, FALSE), "import_images", 0)
    /\ UNCHANGED notBrowseVars

BrowseImportStep == \E file_names \in {{1, 2, 3}, {3}} : BrowseImport(file_names)

\* load_image(row, column): a click on a row of the table.
Click(row) ==
    /\ UserEvent
    /\ row \in DOMAIN filtered_image_paths
    /\ BrowserBecomes(LoadImageByPath(Browser, filtered_image_paths[row], FALSE),
                      "load_image", filtered_image_paths[row])
    /\ UNCHANGED notBrowseVars

ClickStep == \E row \in 1..Cardinality(ImageFiles) : Click(row)

\* load_image_by_path(image_path) called by another window, for any path.
Call(image_path) ==
    /\ UserEvent
    /\ BrowserBecomes(LoadImageByPath(Browser, image_path, FALSE),
                      "load_image_by_path", image_path)
    /\ UNCHANGED notBrowseVars

CallStep == \E image_path \in ImageFiles : Call(image_path)

\* The user clicks a checkbox: its state flips and stateChanged is emitted.
Toggle(box) ==
    /\ UserEvent
    /\ BrowserBecomes(SetChecked(Browser, box, ~Browser[box], FALSE), box, 0)
    /\ UNCHANGED notBrowseVars

ToggleStep == \E box \in Checkboxes : Toggle(box)

\* The user edits the search bar: textChanged runs filter_images and
\* debounce_search, which starts the search timer.
Search(text) ==
    /\ UserEvent
    /\ text # search_bar
    /\ BrowserBecomes([FilterImagesWith([Browser EXCEPT !.search_bar = text], FALSE)
                          EXCEPT !.search_timer = TRUE], "textChanged", 0)
    /\ UNCHANGED notBrowseVars

SearchStep == \E text \in SearchTexts : Search(text)

\* The search timer times out: filter_images runs once more.
SearchTimeout ==
    /\ UserEvent
    /\ search_timer
    /\ BrowserBecomes(FilterImagesWith([Browser EXCEPT !.search_timer = FALSE], FALSE),
                      "timeout", 0)
    /\ UNCHANGED notBrowseVars

\* delete_selected_image() and the answer to its dialog.
DeleteSelected(yes, do_not_show_again) ==
    /\ UserEvent
    /\ BrowserBecomes(DeleteSelectedImage(Browser, yes, do_not_show_again, FALSE),
                      IF yes THEN "delete_yes" ELSE "delete_no", selected_image_path)
    /\ UNCHANGED notBrowseVars

DeleteSelectedStep ==
    \E yes \in BOOLEAN, do_not_show_again \in BOOLEAN :
        DeleteSelected(yes, do_not_show_again)

\* cycle_previous_image() and cycle_next_image()
CycleImage(step) ==
    /\ UserEvent
    /\ BrowserBecomes(Cycle(Browser, step, FALSE),
                      IF step = 1 THEN "cycle_next_image" ELSE "cycle_previous_image",
                      IF InSeq(selected_image_path, filtered_image_paths)
                        THEN CyclePath(Browser, step) ELSE 0)
    /\ UNCHANGED notBrowseVars

CycleStep == \E step \in {-1, 1} : CycleImage(step)

\* The user draws or reviews annotations on the selected image.
Annotate(status) ==
    /\ UserEvent
    /\ selected_image_path # None
    /\ status # store[selected_image_path]
    /\ BrowserBecomes([Browser EXCEPT !.store[selected_image_path] = status],
                      "annotate", 0)
    /\ UNCHANGED notBrowseVars

AnnotateStep == \E status \in {"annotated", "review"} : Annotate(status)

\* The load of worker w completes between two user events: run() emits
\* imageLoaded and finished and the thread exits, the main thread runs
\* on_full_resolution_image_loaded and on_worker_finished, and the timer set
\* by the latter fires.  (Spec interleaves these steps with the events.)
LoadCompleted(w) ==
    /\ w \in BagToSet(workers)
    /\ w.thread = "run"
    /\ loads < MaxLoads
    /\ LET v == [w EXCEPT !.thread = "exited"]
           loaded == OnFullResolutionImageLoaded([Window EXCEPT !.loads = @ + 1],
                                                 w.image_path)
           finished == OnWorkerFinished(loaded, w, v)
       IN  Becomes(ProcessImageQueue([finished EXCEPT !.timers = @ - 1], FALSE))
    /\ UNCHANGED notIwVars

LoadCompletedStep == \E w \in BagToSet(workers) : LoadCompleted(w)

BrowseNext ==
    \/ Tick
    \/ BrowseImportStep
    \/ ClickStep
    \/ CallStep
    \/ ToggleStep
    \/ SearchStep
    \/ SearchTimeout
    \/ DeleteSelectedStep
    \/ CycleStep
    \/ AnnotateStep
    \/ LoadCompletedStep

InitBrowseSpec ==
    ImageWindowInit /\ BrowseInit /\ TrainIdle /\ SplitIdle /\ DownloadIdle /\ ExportIdle /\ SelectIdle /\ MainIdle /\ SpotlightIdle /\ DeployIdle

SpecBrowse == InitBrowseSpec /\ [][BrowseNext]_vars

(***************************************************************************)
(* main() of the downloader.                                               *)
(***************************************************************************)
SourceIds == 1 .. MaxSources

\* The lists argparse can produce for --source_ids (nargs='+'), and None.
SourceIdLists ==
    {<<>>} \cup {ids \in UNION {[1 .. n -> SourceIds] : n \in 1 .. MaxSources} :
                    \A i, j \in DOMAIN ids : i # j => ids[i] # ids[j]}

MainInit ==
    /\ main_pc = "parse"
    /\ source_ids \in SourceIdLists
    /\ headless \in BOOLEAN
    /\ options = {}
    /\ driver = "none"
    /\ credentials = FALSE
    /\ success = FALSE
    /\ sources_done = <<>>
    /\ main_exit = "running"
    /\ failed_at = "none"

\* main() ends: how, and at which statement.
MainEnds(how, at) ==
    /\ main_pc' = "ended"
    /\ main_exit' = how
    /\ failed_at' = at

\* driver.close()
Close(d) == "closed"

\* The check of args.source_ids: sys.exit(1) when none was given.
ParseArgs ==
    /\ main_pc = "parse"
    /\ IF source_ids = <<>>
         THEN MainEnds("system_exit", "parse")
         ELSE main_pc' = "authenticate" /\ UNCHANGED <<main_exit, failed_at>>
    /\ UNCHANGED <<source_ids, headless, options, driver, credentials,
                   success, sources_done>>
    /\ UNCHANGED notMaVars

\* authenticate(username, password) in its try block: any exception is
\* printed and followed by sys.exit(1).
Authenticate(ok) ==
    /\ main_pc = "authenticate"
    /\ IF ok
         THEN main_pc' = "browser" /\ UNCHANGED <<main_exit, failed_at>>
         ELSE MainEnds("system_exit", "authenticate")
    /\ UNCHANGED <<source_ids, headless, options, driver, credentials,
                   success, sources_done>>
    /\ UNCHANGED notMaVars

AuthenticateStep == \E ok \in BOOLEAN : Authenticate(ok)

\* "driver": a browser was started; "sys_exit": none could be, the function
\* prints and calls sys.exit(1); "type_error": the call is rejected, which
\* is what happens with the function as defined in CoralNet/__init__.py (it
\* has the parameter headless, main() passes the keyword options).
BrowserOutcomes == {"driver", "sys_exit", "type_error"}

\* options = Options(), the headless argument, check_for_browsers(options=options).
CheckForBrowsers(outcome) ==
    /\ main_pc = "browser"
    /\ options' = IF headless THEN {"--headless"} ELSE {}
    /\ CASE outcome = "driver" ->
              /\ driver' = "open"
              /\ main_pc' = "credentials"
              /\ UNCHANGED <<main_exit, failed_at>>
         [] outcome = "sys_exit" ->
              /\ MainEnds("system_exit", "browser")
              /\ UNCHANGED driver
         [] OTHER ->
              /\ MainEnds("exception", "browser")
              /\ UNCHANGED driver
    /\ UNCHANGED <<source_ids, headless, credentials, success, sources_done>>
    /\ UNCHANGED notMaVars

CheckForBrowsersStep == \E outcome \in BrowserOutcomes : CheckForBrowsers(outcome)

\* driver.capabilities['credentials'] = {...}
StoreCredentials ==
    /\ main_pc = "credentials"
    /\ credentials' = TRUE
    /\ main_pc' = "login"
    /\ UNCHANGED <<source_ids, headless, options, driver, success,
                   sources_done, main_exit, failed_at>>
    /\ UNCHANGED notMaVars

\* The statements of login() that can raise: loading the page, the three
\* waits for the form elements, typing, the click (all uncaught in login),
\* and the wait for the sign-out link (re-raised as ValueError).
LoginFailures == {"get", "id_username", "id_password", "sign_in", "send_keys",
                  "click", "sign_out"}

LoginOutcomes == {"ok"} \cup LoginFailures

\* driver, _ = login(driver): the call is outside every try block of main().
Login(outcome) ==
    /\ main_pc = "login"
    /\ IF outcome = "ok"
         THEN /\ success' = TRUE
              /\ main_pc' = "download"
              /\ UNCHANGED <<main_exit, failed_at>>
         ELSE /\ MainEnds("exception", outcome)
              /\ UNCHANGED success
    /\ UNCHANGED <<source_ids, headless, options, driver, credentials,
                   sources_done>>
    /\ UNCHANGED notMaVars

LoginStep == \E outcome \in LoginOutcomes : Login(outcome)

\* How a call of download_data ends: it returns its tuple, a stage calls
\* sys.exit(1), or a statement before the stages raises.
DownloadDataOutcomes == {"returned", "process_exit", "raise"}

\* One iteration of the loop over args.source_ids, with the except and
\* finally blocks when download_data does not return.
DownloadSource(outcome) ==
    /\ main_pc = "download"
    /\ Len(sources_done) < Len(source_ids)
    /\ CASE outcome = "returned" ->
              /\ sources_done' = Append(sources_done, source_ids[Len(sources_done) + 1])
              /\ UNCHANGED <<main_pc, driver, main_exit, failed_at>>
         [] outcome = "process_exit" ->
              /\ driver' = Close(driver)
              /\ MainEnds("system_exit", "download")
              /\ UNCHANGED sources_done
         [] OTHER ->
              /\ driver' = Close(driver)
              /\ MainEnds("exception", "download")
              /\ UNCHANGED sources_done
    /\ UNCHANGED <<source_ids, headless, options, credentials, success>>
    /\ UNCHANGED notMaVars

DownloadSourceStep == \E outcome \in DownloadDataOutcomes : DownloadSource(outcome)

\* The loop is exhausted: the finally block, then print("Done.").
LoopDone ==
    /\ main_pc = "download"
    /\ Len(sources_done) = Len(source_ids)
    /\ driver' = Close(driver)
    /\ MainEnds("done", "none")
    /\ UNCHANGED <<source_ids, headless, options, credentials, success,
                   sources_done>>
    /\ UNCHANGED notMaVars

MainNext ==
    \/ ParseArgs
    \/ AuthenticateStep
    \/ CheckForBrowsersStep
    \/ StoreCredentials
    \/ LoginStep
    \/ DownloadSourceStep
    \/ LoopDone

InitMainSpec == MainInit /\ TrainIdle /\ SplitIdle /\ DownloadIdle /\ ImageWindowIdle /\ ExportIdle /\ SelectIdle /\ BrowseIdle /\ SpotlightIdle /\ DeployIdle

SpecMain == InitMainSpec /\ [][MainNext]_vars

(***************************************************************************)
(* The Spotlight window.                                                   *)
(***************************************************************************)
\* image_window.image_paths: two files of one directory and a file of
\* another directory.
SpotlightImagePaths == <<<<1, 1>>, <<1, 2>>, <<2, 3>>>>

\* The short codes of label_window.labels.
SpotlightLabels == <<1, 2>>

\* The names of the three annotation classes.
AnnotationTypes == {"PatchAnnotation", "RectangleAnnotation", "PolygonAnnotation"}

\* The item "All" of the image and label dropdowns.
AllItem == 0

\* os.path.basename(path)
Basename(path) == path[2]

\* The annotations an annotation window can hold.
SpotlightAnnotation ==
    [image_path : {SpotlightImagePaths[i] : i \in DOMAIN SpotlightImagePaths},
     label_short_code : {SpotlightLabels[i] : i \in DOMAIN SpotlightLabels},
     type : AnnotationTypes]

\* The element set of a list.
Elements(seq) == {seq[i] : i \in DOMAIN seq}

\* dropdown.itemText(i)
ItemText(dropdown, i) == dropdown.items[i + 1]

\* The selection loop shared by filter_images, filter_labels and
\* filter_annotations: everything when the first item is "All", else every
\* item of the dropdown other than "All"; list(set(...)) drops the order.
SelectedOf(dropdown, all_text, everything) ==
    IF ItemText(dropdown, 0) = all_text
      THEN everything
      ELSE {ItemText(dropdown, i) : i \in 0 .. Len(dropdown.items) - 1} \ {all_text}

\* update_table(): one row per annotation whose image path, short code and
\* class name are in the three filtered lists.
UpdateTable(anns, paths, codes, types) ==
    LET shown_rows == SelectSeq(anns,
                         LAMBDA a : /\ a.image_path \in paths
                                    /\ a.label_short_code \in codes
                                    /\ a.type \in types)
    IN  [i \in DOMAIN shown_rows |->
            [label_short_code |-> shown_rows[i].label_short_code,
             label_long_code |-> shown_rows[i].label_short_code + 10,
             image_path |-> shown_rows[i].image_path,
             annotation_type |-> shown_rows[i].type]]

\* The window is constructed for an annotation window holding up to
\* MaxSpotlightAnnotations annotations.
SpotlightInit ==
    /\ sw_annotations \in UNION {[1 .. n -> SpotlightAnnotation] :
                                    n \in 0 .. MaxSpotlightAnnotations}
    /\ image_dropdown = NoDropdown
    /\ label_dropdown = NoDropdown
    /\ annotation_dropdown = NoDropdown
    /\ filtered_images = {}
    /\ filtered_labels = {}
    /\ filtered_annotations = {}
    /\ table_widget = <<>>
    /\ sw_op = "none"

\* showEvent: setup_ui() empties the three lists and builds the dropdowns
\* and an empty table; the handlers are connected after the items were added.
ShowEvent ==
    /\ filtered_images' = {}
    /\ filtered_labels' = {}
    /\ filtered_annotations' = {}
    /\ image_dropdown' =
          [items |-> <<AllItem>> \o [i \in DOMAIN SpotlightImagePaths |->
                                       Basename(SpotlightImagePaths[i])],
           currentIndex |-> 0]
    /\ label_dropdown' = [items |-> <<AllItem>> \o SpotlightLabels, currentIndex |-> 0]
    /\ annotation_dropdown' =
          [items |-> <<"All", "PatchAnnotations", "RectangleAnnotations",
                       "PolygonAnnotations">>,
           currentIndex |-> 0]
    /\ table_widget' = <<>>
    /\ sw_op' = "show"
    /\ UNCHANGED sw_annotations
    /\ UNCHANGED notSwVars

\* The user picks item i of the image dropdown: currentIndexChanged runs
\* filter_images.
ImageIndexChanged(i) ==
    /\ i \in 0 .. Len(image_dropdown.items) - 1
    /\ i # image_dropdown.currentIndex
    /\ image_dropdown' = [image_dropdown EXCEPT !.currentIndex = i]
    /\ filtered_images' = SelectedOf(image_dropdown', AllItem,
                                     Elements(SpotlightImagePaths))
    /\ table_widget' = UpdateTable(sw_annotations, filtered_images', filtered_labels,
                                   filtered_annotations)
    /\ sw_op' = "image_dropdown"
    /\ UNCHANGED <<sw_annotations, label_dropdown, annotation_dropdown,
                   filtered_labels, filtered_annotations>>
    /\ UNCHANGED notSwVars

ImageIndexChangedStep == \E i \in 0 .. 3 : ImageIndexChanged(i)

\* The user picks item i of the label dropdown: filter_labels.
LabelIndexChanged(i) ==
    /\ i \in 0 .. Len(label_dropdown.items) - 1
    /\ i # label_dropdown.currentIndex
    /\ label_dropdown' = [label_dropdown EXCEPT !.currentIndex = i]
    /\ filtered_labels' = SelectedOf(label_dropdown', AllItem, Elements(SpotlightLabels))
    /\ table_widget' = UpdateTable(sw_annotations, filtered_images, filtered_labels',
                                   filtered_annotations)
    /\ sw_op' = "label_dropdown"
    /\ UNCHANGED <<sw_annotations, image_dropdown, annotation_dropdown,
                   filtered_images, filtered_annotations>>
    /\ UNCHANGED notSwVars

LabelIndexChangedStep == \E i \in 0 .. 2 : LabelIndexChanged(i)

\* The user picks item i of the annotation dropdown: filter_annotations.
AnnotationIndexChanged(i) ==
    /\ i \in 0 .. Len(annotation_dropdown.items) - 1
    /\ i # annotation_dropdown.currentIndex
    /\ annotation_dropdown' = [annotation_dropdown EXCEPT !.currentIndex = i]
    /\ filtered_annotations' =
          SelectedOf(annotation_dropdown', "All",
                     {"PatchAnnotations", "RectangleAnnotations", "PolygonAnnotations"})
    /\ table_widget' = UpdateTable(sw_annotations, filtered_images, filtered_labels,
                                   filtered_annotations')
    /\ sw_op' = "annotation_dropdown"
    /\ UNCHANGED <<sw_annotations, image_dropdown, label_dropdown, filtered_images,
                   filtered_labels>>
    /\ UNCHANGED notSwVars

AnnotationIndexChangedStep == \E i \in 0 .. 3 : AnnotationIndexChanged(i)

SpotlightNext ==
    \/ ShowEvent
    \/ ImageIndexChangedStep
    \/ LabelIndexChangedStep
    \/ AnnotationIndexChangedStep

InitSpotlightSpec == SpotlightInit /\ TrainIdle /\ SplitIdle /\ DownloadIdle /\ ImageWindowIdle /\ ExportIdle /\ SelectIdle /\ BrowseIdle /\ MainIdle /\ DeployIdle

SpecSpotlight == InitSpotlightSpec /\ [][SpotlightNext]_vars

(***************************************************************************)
(* The AutoDistill dialog.                                                 *)
(***************************************************************************)
\* Values of the uncertainty threshold: below, at and above the limit.
UncertaintyValues == {5, 10, 30}

\* The mappings the user can enter in the ontology inputs.
OntologyMappings == {1, 2}

\* get_uncertainty_threshold(): the configured value if it is below 0.10,
\* else 0.10.
GetUncertaintyThreshold(t) == IF t < 10 THEN t ELSE 10

\* The dialog after construction.
DeployInit ==
    /\ main_uncertainty_thresh \in UncertaintyValues
    /\ ontology_pairs \in OntologyMappings
    /\ loaded_model = NoModel
    /\ model_name = "None"
    /\ ontology = 0
    /\ ad_cursors = 0
    /\ ad_progress_bars = 0
    /\ ad_last = NoOperation
    /\ ad_events = 0

DialogEvent == ad_events < MaxDialogEvents /\ ad_events' = ad_events + 1

\* The user moves the uncertainty slider of the main window or edits the
\* ontology inputs.
Configure(t, mapping) ==
    /\ DialogEvent
    /\ <<t, mapping>> # <<main_uncertainty_thresh, ontology_pairs>>
    /\ main_uncertainty_thresh' = t
    /\ ontology_pairs' = mapping
    /\ UNCHANGED <<loaded_model, model_name, ontology, ad_cursors, ad_progress_bars,
                   ad_last>>
    /\ UNCHANGED notAdVars

ConfigureStep ==
    \E t \in UncertaintyValues, mapping \in OntologyMappings : Configure(t, mapping)

\* What can raise inside the try block of load_model: CaptionOntology, the
\* import of the detector, its construction.
LoadFailures == {"ontology", "import", "construction"}

\* load_model(): the only model of the dropdown is GroundingDINO.  The try
\* block with load_new_model, the except clause, then the progress dialog is
\* closed and the cursor restored.
LoadModel(failure) ==
    /\ DialogEvent
    /\ LET uncertainty_thresh == GetUncertaintyThreshold(main_uncertainty_thresh)
           name == "GroundingDINO"
           new == name # model_name
           result(outcome) ==
               [op |-> "load_model", outcome |-> outcome,
                thresh |-> main_uncertainty_thresh]
       IN  IF failure = "ontology"
             THEN /\ ad_last' = result("caught")
                  /\ UNCHANGED <<ontology, model_name, loaded_model>>
           ELSE /\ ontology' = ontology_pairs
                /\ IF new
                     THEN CASE failure = "import" ->
                                 /\ ad_last' = result("caught")
                                 /\ UNCHANGED <<model_name, loaded_model>>
                            [] failure = "construction" ->
                                 /\ model_name' = name
                                 /\ ad_last' = result("caught")
                                 /\ UNCHANGED loaded_model
                            [] OTHER ->
                                 /\ model_name' = name
                                 /\ loaded_model' =
                                       [loaded |-> TRUE, ontology |-> ontology_pairs,
                                        box_threshold |-> uncertainty_thresh,
                                        text_threshold |-> uncertainty_thresh]
                                 /\ ad_last' = result("ok")
                     ELSE /\ UNCHANGED model_name
                          /\ IF loaded_model.loaded
                               THEN /\ loaded_model' =
                                         [loaded_model EXCEPT !.ontology = ontology_pairs]
                                    /\ ad_last' = result("ok")
                               ELSE /\ UNCHANGED loaded_model
                                    /\ ad_last' = result("caught")
    /\ UNCHANGED <<main_uncertainty_thresh, ontology_pairs, ad_cursors,
                   ad_progress_bars>>
    /\ UNCHANGED notAdVars

LoadModelStep == \E failure \in {"none"} \cup LoadFailures : LoadModel(failure)

\* predict(image_paths) for n images; failing = 0: every image is processed,
\* else opening, inference or result processing raises at that image.  The
\* body has no try block.
Predict(n, failing) ==
    /\ DialogEvent
    /\ IF ~loaded_model.loaded
         THEN /\ ad_last' = [op |-> "predict", outcome |-> "no_model",
                             thresh |-> main_uncertainty_thresh]
              /\ UNCHANGED <<ad_cursors, ad_progress_bars>>
         ELSE IF failing = 0
           THEN /\ ad_last' = [op |-> "predict", outcome |-> "ok",
                               thresh |-> main_uncertainty_thresh]
                /\ UNCHANGED <<ad_cursors, ad_progress_bars>>
           ELSE /\ ad_last' = [op |-> "predict", outcome |-> "raised",
                               thresh |-> main_uncertainty_thresh]
                /\ ad_cursors' = ad_cursors + 1
                /\ ad_progress_bars' = ad_progress_bars + 1
    /\ UNCHANGED <<main_uncertainty_thresh, ontology_pairs, loaded_model, model_name,
                   ontology>>
    /\ UNCHANGED notAdVars

PredictStep ==
    \E n \in 1 .. MaxPredictImages : \E failing \in 0 .. n : Predict(n, failing)

\* deactivate_model()
DeactivateModel ==
    /\ DialogEvent
    /\ loaded_model' = NoModel
    /\ model_name' = "None"
    /\ ad_last' = [op |-> "deactivate_model", outcome |-> "ok",
                   thresh |-> main_uncertainty_thresh]
    /\ UNCHANGED <<main_uncertainty_thresh, ontology_pairs, ontology, ad_cursors,
                   ad_progress_bars>>
    /\ UNCHANGED notAdVars

DeployNext ==
    \/ ConfigureStep
    \/ LoadModelStep
    \/ PredictStep
    \/ DeactivateModel

InitDeploySpec == DeployInit /\ TrainIdle /\ SplitIdle /\ DownloadIdle /\ ImageWindowIdle /\ ExportIdle /\ SelectIdle /\ BrowseIdle /\ MainIdle /\ SpotlightIdle

SpecDeploy == InitDeploySpec /\ [][DeployNext]_vars

(***************************************************************************)
(* Claims on the image window.                                             *)
(***************************************************************************)
\* C1 as stated: at every instant, at most MAX_CONCURRENT_THREADS worker
\* threads are running.
C1_Original == NumRunning(workers) <= MAX_CONCURRENT_THREADS

\* C2 as stated: no request for an imported image is discarded; while the
\* window is open, a call of load_image_by_path for an imported image other
\* than the selected one is always taken.
C2_Original ==
    ~closed =>
        \A p \in ImageFiles :
            (InSeq(p, image_paths) /\ p # selected_image_path) => ~Throttled(Window)

\* This step takes image_path off the queue: it becomes the selection, and
\* one worker is started for it unless showing the preview raises.
Dequeued(image_path) ==
    /\ selected_image_path' = image_path
    /\ \/ workers' = workers (+) SetToBag({NewWorker(image_path)})
       \/ workers' = workers /\ errors' = errors + 1

\* C2: a request is accepted only for an imported image other than the
\* selected one and when THROTTLE_INTERVAL ms have passed since the last
\* accepted one; an accepted request is appended to image_load_queue; the
\* queue loses an entry only at its head, one per step, and then exactly one
\* worker is started for that entry (none when the preview raises); no
\* worker is started otherwise.
C2_QueueDiscipline ==
    [][LET q == image_load_queue
           accepted == selections' = selections + 1
       IN  /\ accepted =>
                 /\ ~Throttled(Window)
                 /\ \E p \in ImageFiles \ {selected_image_path} :
                       /\ InSeq(p, image_paths')
                       /\ \/ image_load_queue' = Append(q, p) /\ workers' = workers
                          \/ /\ image_load_queue' = Tail(Append(q, p))
                             /\ Dequeued(Head(Append(q, p)))
           /\ ~accepted =>
                 \/ image_load_queue' = q /\ BagCardinality(workers') <= BagCardinality(workers)
                 \/ /\ q # <<>>
                    /\ image_load_queue' = Tail(q)
                    /\ Dequeued(Head(q))
           /\ \A p \in ImageFiles :
                 workers' = workers (+) SetToBag({NewWorker(p)}) =>
                     NumCurrentWorkers(workers) < MAX_CONCURRENT_THREADS]_vars

\* The ninth accepted request waits in the queue while eight workers run.
C2_Witness ==
    /\ Len(image_load_queue) = 1
    /\ NumCurrentWorkers(workers) = MAX_CONCURRENT_THREADS
    /\ selections = MAX_CONCURRENT_THREADS + 1

\* This step runs on_full_resolution_image_loaded for a queued imageLoaded.
ImageDelivered ==
    \E w \in BagToSet(workers) :
        /\ w.signals # <<>>
        /\ Head(w.signals) = "imageLoaded"
        /\ workers' = Replace(workers, w, [w EXCEPT !.signals = Tail(@)])

\* This step starts a worker.
WorkerStarted ==
    \E p \in ImageFiles : workers' = workers (+) SetToBag({NewWorker(p)})

\* C3 as stated: once closeEvent has returned, no worker thread is running,
\* no worker is started and no image is delivered to
\* on_full_resolution_image_loaded.
C3_Original ==
    [][closed' => /\ NumRunning(workers') = 0
                  /\ closed => (~WorkerStarted /\ ~ImageDelivered)]_vars

(***************************************************************************)
(* Claims on the downloader.                                               *)
(***************************************************************************)
\* C4 as stated: the table given to download_images carries, in every row,
\* the URL resolved from that row's image page, and one page whose URL
\* cannot be resolved does not keep the other rows from being downloaded.
C4_Original ==
    /\ handed.called =>
          \A i \in DOMAIN handed.rows :
              handed.rows[i].image_url = handed.rows[i].image_page
    /\ (/\ dd_pc \in {"annotations", "returned"}
        /\ "images" \in {stages_run[k] : k \in DOMAIN stages_run}
        /\ Len(image_table) >= 2
        /\ Cardinality(url_failed) = 1) => handed.called

Ended == {"returned", "process_exit"}

StagesRun == {stages_run[k] : k \in DOMAIN stages_run}

C6_Original ==
    \A k \in 1..(Len(dl_calls) - 1) :
        (/\ dl_calls[k].image_url = dl_calls[k + 1].image_url
         /\ dl_calls[k].image_path = dl_calls[k + 1].image_path)
        => (~dl_calls[k + 1].requested /\ dl_calls[k + 1].downloaded)

\* C6: a call asks the server exactly when the destination path does not
\* exist; of two calls in a row with the same URL and the same destination
\* path, the second asks the server only if the first one failed, and after
\* a successful first call the second returns success without asking.
C6_SecondCallAfterSuccess ==
    /\ \A k \in 1..(Len(dl_calls) - 1) :
          (/\ dl_calls[k].image_url = dl_calls[k + 1].image_url
           /\ dl_calls[k].image_path = dl_calls[k + 1].image_path)
          => /\ dl_calls[k].downloaded =>
                   (~dl_calls[k + 1].requested /\ dl_calls[k + 1].downloaded)
             /\ dl_calls[k + 1].requested => ~dl_calls[k].downloaded
    /\ \A k \in DOMAIN dl_calls :
          dl_calls[k].downloaded => dl_calls[k].image_path \in files

C6_Witness ==
    /\ Len(dl_calls) >= 2
    /\ dl_calls[1].image_url = dl_calls[2].image_url
    /\ dl_calls[1].image_path = dl_calls[2].image_path
    /\ dl_calls[1].requested
    /\ dl_calls[1].downloaded
    /\ ~dl_calls[2].requested
    /\ dl_calls[2].downloaded

(***************************************************************************)
(* Claims on the dataset split.                                            *)
(***************************************************************************)
\* The number of final tables an image name has rows in.
TablesWith(i) ==
    Cardinality({t \in {"train", "valid", "test"} :
        i \in Names(CASE t = "train" -> train_df [] t = "valid" -> valid_df [] OTHER -> test_df)})

C8_Original ==
    [][(/\ split_pc = "backfill"
        /\ split_pc' = "done"
        /\ LabelsOf(train_df) \ LabelsOf(valid_df) # {})
       => \A l \in LabelsOf(patches_df) :
             /\ l \in LabelsOf(train_df')
             /\ l \in LabelsOf(valid_df')
             /\ l \in LabelsOf(test_df')]_vars

(***************************************************************************)
(* Claims on the segmentation trainer.                                      *)
(***************************************************************************)
\* The validation losses reported by the completed epochs.
SeenLosses == {l \in Losses : first_seen[l] > 0}

\* The earliest completed epoch with the lowest validation loss.
EarliestBest ==
    first_seen[CHOOSE m \in SeenLosses : \A l \in SeenLosses : m <= l]

\* The epochs whose validation loss is strictly below every earlier one.
StrictImprovements ==
    {first_seen[l] : l \in {m \in SeenLosses :
        \A k \in SeenLosses : k < m => first_seen[k] > first_seen[m]}}

\* C9: after a loop in which at least one epoch completed, the checkpoint
\* loaded for evaluation and copied to Best_Model_and_Weights is the file
\* saved at the earliest epoch with the lowest validation loss, and a file
\* is saved at exactly the epochs that are strictly below all earlier ones.
\* The load itself fails only after an interrupt that arrived between the
\* assignment of best_epoch and the save of its file.
C9_BestCheckpoint ==
    /\ weights = StrictImprovements
    /\ e_idx >= 1 =>
          /\ seg_pc = "crashed" => (loop_exit = "interrupt" /\ best_epoch \notin weights)
          /\ seg_pc \in {"evaluate", "done"} => best_weights = EarliestBest
          /\ seg_pc = "done" => best_model_copy = EarliestBest

\* A finished run whose best epoch has two digits and whose first epoch was
\* saved as well (model-1 and model-10 are both in weights_dir).
C9_Witness ==
    /\ seg_pc = "done"
    /\ weights = {1, 10}
    /\ best_model_copy = 10

\* C10: at the end of an epoch the learning rate is halved iff since_best >= 3
\* and train_loss <= valid_loss, the loop is left early iff since_best >= 7
\* and train_loss < valid_loss and otherwise goes on until num_epochs epochs
\* ran; since_best is reset by an improving epoch and incremented by others.
C10_EpochRules ==
    [][/\ e_idx' = e_idx + 1 =>
            /\ since_best' = IF valid_loss' < best_score THEN 0 ELSE since_best + 1
            /\ lr_halvings' = IF since_best' >= 3 /\ train_loss' <= valid_loss'
                                THEN lr_halvings + 1 ELSE lr_halvings
            /\ IF since_best' >= 7 /\ train_loss' < valid_loss'
                 THEN seg_pc' = "load" /\ loop_exit' = "break"
                 ELSE seg_pc' = "loop" /\ loop_exit' = "none"
       /\ (loop_exit = "none" /\ loop_exit' = "break") => e_idx' = e_idx + 1
       /\ (loop_exit = "none" /\ loop_exit' = "exhausted") => e_idx = num_epochs
      ]_vars

\* An early exit after the learning rate was halved during stagnation.
C10_Witness ==
    /\ loop_exit = "break"
    /\ since_best >= 7
    /\ lr_halvings >= 5
    /\ e_idx < num_epochs

\* C11: a keyboard interrupt received at any point of the training loop, also
\* before the first checkpoint was saved, ends the loop without error, and the
\* run goes on to load the best checkpoint, evaluate, and copy it out to
\* Best_Model_and_Weights.
C11_Original ==
    loop_exit = "interrupt" =>
        /\ seg_pc \in {"load", "evaluate", "done"}
        /\ seg_pc \in {"evaluate", "done"} => best_weights = best_epoch
        /\ seg_pc = "done" => best_model_copy = best_weights

(***************************************************************************)
(* Claims on the CoralNet exporter.                                        *)
(***************************************************************************)
\* The last export raised an exception after a destination was chosen.
ExportRaised == last_export.file_path /\ last_export.raised # "none"

\* The warning dialog was shown, the override cursor is as it was before the
\* call and the progress dialog is closed.
ExportCleanedUp ==
    /\ last_export.dialog = "warning"
    /\ ex_cursor = last_export.cursor_before
    /\ progress_bars = 0

\* The destination holds some, and not all, of the rows of the annotations.
PartiallyWritten ==
    /\ destination.exists
    /\ \E k \in 1..(last_export.total_annotations - 1) : destination.rows = [i \in 1..k |-> i]

\* C12: an exception raised at any point of export_annotations after a
\* destination was chosen (while serializing an annotation or while writing)
\* shows a warning dialog, restores the override cursor, closes the progress
\* dialog, and leaves no partially written annotation data in the destination.
C12_Original == ExportRaised => (ExportCleanedUp /\ ~PartiallyWritten)

\* C12 (amended): after such an exception the warning dialog was shown, the
\* cursor is restored and the progress dialog closed; when the exception came
\* from to_coralnet() the destination is untouched, and when it came from
\* write_csv() the destination is untouched or holds a prefix of the rows.
C12_ExportFailure ==
    ExportRaised =>
        /\ ExportCleanedUp
        /\ last_export.raised = "to_coralnet" =>
              destination = last_export.destination_before
        /\ last_export.raised = "write_csv" =>
              \/ destination = last_export.destination_before
              \/ /\ destination.exists
                 /\ \E k \in 0..last_export.total_annotations :
                        destination.rows = [i \in 1..k |-> i]

\* The second of three annotations could not be serialized, after the first
\* was, and a file of an earlier export is at the destination.
C12_Witness ==
    /\ ExportRaised
    /\ last_export.raised = "to_coralnet"
    /\ last_export.df = <<1>>
    /\ last_export.total_annotations = 3
    /\ destination = [exists |-> TRUE, rows |-> <<0>>]

(***************************************************************************)
(* Claims on the selection tool.                                           *)
(***************************************************************************)
\* C13: a rectangle resized by delta (dx, dy) with handle bottom_right has
\* bottom_right changed by exactly (dx, dy) and top_left unchanged; with
\* top_right, top_left.y changes by dy and bottom_right.x by dx while
\* top_left.x and bottom_right.y are unchanged; top_left moves only top_left;
\* bottom_left moves only top_left.x and bottom_right.y.  delta is the step
\* of resize_start_pos, and no other annotation changes.
C13_ResizeFrame ==
    [][(resizing /\ resizing' /\ events' = events + 1 /\ selected_annotation # 0) =>
          LET before == scene[selected_annotation]
              after == scene'[selected_annotation]
              dx == resize_start_pos'[1] - resize_start_pos[1]
              dy == resize_start_pos'[2] - resize_start_pos[2]
          IN  /\ \A id \in DOMAIN scene \ {selected_annotation} : scene'[id] = scene[id]
              /\ before.kind = "rectangle" =>
                   /\ resize_handle = "bottom_right" =>
                        /\ after.bottom_right = <<before.bottom_right[1] + dx,
                                                  before.bottom_right[2] + dy>>
                        /\ after.top_left = before.top_left
                   /\ resize_handle = "top_right" =>
                        /\ after.top_left = <<before.top_left[1], before.top_left[2] + dy>>
                        /\ after.bottom_right = <<before.bottom_right[1] + dx,
                                                  before.bottom_right[2]>>
                   /\ resize_handle = "top_left" =>
                        /\ after.top_left = <<before.top_left[1] + dx,
                                              before.top_left[2] + dy>>
                        /\ after.bottom_right = before.bottom_right
                   /\ resize_handle = "bottom_left" =>
                        /\ after.top_left = <<before.top_left[1] + dx, before.top_left[2]>>
                        /\ after.bottom_right = <<before.bottom_right[1],
                                                  before.bottom_right[2] + dy>>
      ]_vars

\* The top_right handle of the first rectangle was dragged by (5, -5).
C13_Witness ==
    /\ last_move = "resize"
    /\ resizing
    /\ resize_handle = "top_right"
    /\ selected_annotation = 1
    /\ scene[1].top_left = <<5, 0>>
    /\ scene[1].bottom_right = <<20, 15>>

(***************************************************************************)
(* Claims on the image browser.                                            *)
(***************************************************************************)
\* The number of checkboxes ticked in a triple of checkbox states.
NumChecked(t) ==
    (IF t[1] THEN 1 ELSE 0) + (IF t[2] THEN 1 ELSE 0) + (IF t[3] THEN 1 ELSE 0)

\* C14: after any sequence of user toggles at most one of Has Annotations,
\* Needs Review and No Annotations is checked, and filter_images never sees
\* two of them checked.
C14_AtMostOneChecked ==
    /\ NumChecked(<<has_annotations_checkbox, needs_review_checkbox,
                    no_annotations_checkbox>>) <= 1
    /\ \A i \in DOMAIN seen : NumChecked(seen[i]) <= 1

\* A checkbox was ticked while another one was: filter_images ran for the
\* unticked checkbox and then for the ticked one.
C14_Witness ==
    /\ last_event.op = "has_annotations_checkbox"
    /\ has_annotations_checkbox
    /\ seen = <<<<TRUE, FALSE, FALSE>>, <<TRUE, FALSE, FALSE>>>>

\* C15: whenever the filtered list is not empty, cycle_next_image requests
\* the image at index (i+1) mod n and cycle_previous_image the image at index
\* (i-1) mod n of the filtered list, i being the position of the selection
\* and n the length of the list, and neither operation fails.
C15_Original ==
    last_event.op \in {"cycle_next_image", "cycle_previous_image"} =>
        /\ ~last_event.raised
        /\ filtered_image_paths # <<>> => last_event.requested # 0

\* The last event was a confirmed deletion of the image p.
Deleted(p) == last_event.op = "delete_yes" /\ last_event.requested = p

\* C16: after delete_image(p) for an imported image p, p is absent from
\* image_paths, image_dict, filtered_image_paths and the caches images and
\* rasterio_images, and its annotations have been removed.
C16_Original ==
    \A p \in ImageFiles :
        Deleted(p) =>
            /\ ~InSeq(p, image_paths)
            /\ p \notin image_dict
            /\ ~InSeq(p, filtered_image_paths)
            /\ images[p] = None
            /\ rasterio_images[p] = None
            /\ store[p] = "none"

\* C17: after the selected image is deleted, the selection is the first image
\* of the remaining filtered list, or None when no image remains;
\* selected_image_path never keeps pointing to the deleted image.
C17_Original ==
    \A p \in ImageFiles :
        Deleted(p) =>
            /\ selected_image_path # p
            /\ selected_image_path = IF filtered_image_paths = <<>> THEN None
                                     ELSE filtered_image_paths[1]

\* The state of the window that load_image_by_path can change.
WindowState ==
    <<image_paths, filtered_image_paths, selected_image_path, images, rasterio_images,
      image_load_queue, workers, timers, elapsed, override_cursors, closed, selections,
      has_annotations_checkbox, needs_review_checkbox, no_annotations_checkbox,
      search_bar, search_timer, image_dict, store, show_confirmation_dialog>>

\* C18: load_image_by_path accepts a selection (enqueues it and records its
\* time) only when at least THROTTLE_INTERVAL ms have passed since the
\* previously accepted selection, so no two accepted selections are less
\* than THROTTLE_INTERVAL apart; a call for an imported image other than the
\* selected one is accepted when that time has passed, and a rejected call
\* (throttled, unknown path, or the selected image) changes no state.
C18_Throttle ==
    [][/\ selections' # selections =>
            /\ selections' = selections + 1
            /\ elapsed >= THROTTLE_INTERVAL
            /\ elapsed' = 0
       /\ (browse_events' # browse_events
             /\ last_event'.op \in {"load_image", "load_image_by_path"}) =>
            LET image_path == last_event'.requested IN
              IF /\ elapsed >= THROTTLE_INTERVAL
                 /\ InSeq(image_path, image_paths)
                 /\ image_path # selected_image_path
                THEN /\ selections' = selections + 1
                     /\ \/ image_load_queue' = Append(image_load_queue, image_path)
                        \/ image_load_queue' = Tail(Append(image_load_queue, image_path))
                ELSE UNCHANGED WindowState
      ]_vars

\* A request for an imported image that is not the selected one was ignored
\* 25 ms after the previous selection was accepted.
C18_Witness ==
    /\ last_event.op = "load_image_by_path"
    /\ InSeq(last_event.requested, image_paths)
    /\ last_event.requested # selected_image_path
    /\ selected_image_path # None
    /\ elapsed = 25
    /\ selections = 1

\* C20 as stated: when the annotations stage fails inside download_annotations
\* (inaccessible source, missing export form, non-200 response), the failure
\* is captured there and download_data takes its except branch, which logs
\* that the annotations could not be obtained and leaves the annotations
\* element None.
C20_Original ==
    [][\A outcome \in CapturedFailures :
          AnnotationsStage(outcome) => annotations' = "None"]_vars

MinValidLoss ==
    LET seen_losses == {l \in Losses : first_seen[l] # 0} IN
      IF seen_losses = {} THEN Inf
      ELSE CHOOSE l \in seen_losses : \A k \in seen_losses : l <= k

\* C29: at the end of every epoch e that ran to its end, since_best is
\* e - best_epoch and best_score is the minimum validation loss of the epochs
\* 1..e; and best_score never increases.
C29_BestBookkeeping ==
    /\ since_best = e_idx - best_epoch
    /\ best_score = MinValidLoss
    /\ [][(loop_exit # "interrupt" =>
              /\ since_best = e_idx - best_epoch
              /\ best_score = MinValidLoss)']_vars
    /\ [][best_score' <= best_score]_vars

\* Three epochs ran, the second improved on the first, the third did not.
C29_Witness ==
    /\ seg_pc = "loop"
    /\ e_idx = 3
    /\ best_epoch = 2
    /\ since_best = 1
    /\ best_score < valid_loss

\* C25: resizing becomes true only by a left press on a corner handle of a
\* rectangle, and while it is true resize_handle and resize_start_pos are
\* set; every release leaves resizing = False and resize_handle,
\* resize_start_pos and drag_start_pos None; a move event that resizes does
\* not drag (drag_start_pos is kept and no annotation is translated), and one
\* that does not resize leaves resize_start_pos alone.  A move event is an
\* event that keeps resizing and the state of the left button, so the last
\* conjunct is stated for every such event.
C25_GestureStates ==
    /\ (resizing => (resize_handle # "None" /\ resize_start_pos # <<>>))
    /\ [][resizing' => (resize_handle' # "None" /\ resize_start_pos' # <<>>)]_vars
    /\ [][(resizing' /\ ~resizing) =>
            /\ left_button' /\ ~left_button
            /\ \E id \in DOMAIN scene :
                 /\ scene[id].kind = "rectangle"
                 /\ ContainsPoint(scene[id], resize_start_pos')
                 /\ DetectResizeHandle(scene[id], resize_start_pos') = resize_handle'
                 /\ resize_handle' # "None"]_vars
    /\ [][MouseReleaseStep =>
            /\ resizing' = FALSE
            /\ resize_handle' = "None"
            /\ resize_start_pos' = <<>>
            /\ drag_start_pos' = <<>>]_vars
    /\ [][(events' = events + 1 /\ resizing' = resizing /\ left_button' = left_button) =>
            IF resizing
              THEN /\ drag_start_pos' = drag_start_pos
                   /\ \A id \in DOMAIN scene :
                        \/ scene'[id] = scene[id]
                        \/ scene'[id] = ResizeAnnotation(scene[id], resize_handle,
                                           Sub(resize_start_pos', resize_start_pos))
              ELSE resize_start_pos' = resize_start_pos]_vars

\* A resize gesture on the first rectangle was made and ended by a release.
C25_Witness ==
    /\ last_move = "resize"
    /\ ~resizing
    /\ ~left_button
    /\ resize_handle = "None"
    /\ resize_start_pos = <<>>
    /\ scene[1] # [kind |-> "rectangle", top_left |-> <<5, 5>>, bottom_right |-> <<15, 15>>]

\* C27 as stated: a move event of a resize gesture resizes the annotation
\* whose corner handle was pressed, and no other one, whatever was selected
\* before the press.
C27_Original ==
    [][(resizing /\ resizing' /\ events' = events + 1
           /\ resize_start_pos' # resize_start_pos) =>
          /\ scene'[pressed] = ResizeAnnotation(scene[pressed], resize_handle,
                                  Sub(resize_start_pos', resize_start_pos))
          /\ \A id \in DOMAIN scene \ {pressed} : scene'[id] = scene[id]]_vars

\* C24 as stated: once "Do not show this message again" has been ticked
\* (show_confirmation_dialog is False), delete_selected_image deletes the
\* selected image without asking, so no answer of a dialog can keep the
\* image; before that, it deletes nothing unless the answer was Yes.
C24_Original ==
    [][(/\ browse_events' = browse_events + 1
        /\ last_event'.op \in {"delete_yes", "delete_no"}
        /\ selected_image_path # None) =>
          IF ~show_confirmation_dialog
            THEN ~InSeq(selected_image_path, image_paths')
            ELSE last_event'.op = "delete_no" => image_paths' = image_paths]_vars

\* C26 as stated: for every image path p, the bitmap in images[p] and the
\* raster handle in rasterio_images[p] were loaded from file p, under any
\* interleaving of selections and worker completions.
C26_Original ==
    \A p \in ImageFiles :
        /\ images[p] \in {None, p}
        /\ rasterio_images[p] \in {None, p}

\* Every load that was started has come to its end: the queue is empty, no
\* timer is pending, no worker is running and no signal waits for its slot.
LoadsSettled ==
    /\ image_load_queue = <<>>
    /\ timers = 0
    /\ \A w \in BagToSet(workers) : w.thread # "run" /\ w.signals = <<>>

\* C30 as stated: every busy cursor pushed by _process_image_queue is popped
\* exactly once on every outcome of the load (image delivered, worker error,
\* exception while showing the preview, selection cleared), so that no
\* override cursor is left once all loads of the open window have ended.
C30_Original ==
    (~closed /\ LoadsSettled) => override_cursors = 0

(***************************************************************************)
(* Claims on the Spotlight window.                                         *)
(***************************************************************************)
\* The annotation is admitted by the three dropdowns as they stand: each one
\* admits everything at "All", and otherwise the image file, the short code
\* or the shape type named by its current item.
Admitted(a) ==
    /\ \/ image_dropdown.currentIndex = 0
       \/ Basename(a.image_path) = ItemText(image_dropdown, image_dropdown.currentIndex)
    /\ \/ label_dropdown.currentIndex = 0
       \/ a.label_short_code = ItemText(label_dropdown, label_dropdown.currentIndex)
    /\ \/ annotation_dropdown.currentIndex = 0
       \/ a.type = CASE annotation_dropdown.currentIndex = 1 -> "PatchAnnotation"
                     [] annotation_dropdown.currentIndex = 2 -> "RectangleAnnotation"
                     [] OTHER -> "PolygonAnnotation"

\* C21 as stated: after any change of one of the three filters, the table
\* holds exactly the annotations of the store that the three current filters
\* admit, a filter at "All" admitting everything.
C21_Original ==
    sw_op \in {"image_dropdown", "label_dropdown", "annotation_dropdown"} =>
        table_widget = UpdateTable(SelectSeq(sw_annotations, Admitted),
                                   Elements(SpotlightImagePaths),
                                   Elements(SpotlightLabels), AnnotationTypes)

(***************************************************************************)
(* Claims on the AutoDistill dialog.                                       *)
(***************************************************************************)
\* C22 as stated: after every successful load_model, the box and text
\* thresholds of the detector that predict will use are min(t, 0.10), t
\* being the uncertainty threshold configured when that load_model ran.
C22_Original ==
    (ad_last.op = "load_model" /\ ad_last.outcome = "ok") =>
        /\ loaded_model.loaded
        /\ loaded_model.box_threshold = GetUncertaintyThreshold(ad_last.thresh)
        /\ loaded_model.text_threshold = GetUncertaintyThreshold(ad_last.thresh)

\* C23 as stated: load_model and predict restore the cursor and close the
\* progress dialog on every outcome, and no exception leaves them.
C23_Original ==
    ad_last.op \in {"load_model", "predict"} =>
        /\ ad_cursors = 0
        /\ ad_progress_bars = 0
        /\ ad_last.outcome # "raised"

\* C28 as stated: model_name is set only if loaded_model is set, so that a
\* load_model after a failed construction constructs the detector again.
C28_Original ==
    model_name # "None" => loaded_model.loaded

====
